---- MODULE Spec2Model ----
(***************************************************************************)
(* Titan POS sync engine: leader election (titan-sync/election.rs), the    *)
(* agent's message router and the inbound applier (agent.rs, inbound.rs),  *)
(* and the outbox pipeline (outbox.rs, titan-db sync.rs, desktop           *)
(* commands/sale.rs).  Each part has its own variables and its own         *)
(* specification; a specification leaves the other parts' variables alone. *)
(***************************************************************************)
EXTENDS Integers, Sequences, FiniteSets, TLC

VARIABLES
    \* ---- election.rs: one ElectionService per device ----
    role,            \* ElectionState.role
    term,            \* ElectionState.term
    primary_id,      \* ElectionState.primary_id
    last_heartbeat,  \* ElectionState.last_heartbeat: "none", "fresh", "expired"
    epc,             \* where the run() task of the device stands
    heartbeats,      \* Heartbeat messages emitted so far, deliverable at any time
    \* ---- agent.rs / inbound.rs: one SECONDARY's router and applier ----
    seen_term,       \* highest election term the SECONDARY has observed
    update_rx,       \* router -> applier channel (InboundHandler.update_rx)
    products,        \* products table: id -> row
    inventory_deltas,\* inventory_deltas audit table (a sequence of rows)
    acks,            \* UpdateAck messages handed to the transport
    now,             \* the database clock, datetime('now')
    hist,            \* history of what the applier did (for the properties)
    \* ---- outbox.rs / sync.rs / commands/sale.rs ----
    sync_outbox,     \* sync_outbox table: a sequence of rows in created_at order
    sales,           \* sales table: sale id -> status
    fpc,             \* finalize_sale command: sale id -> position in the handler
    connected,       \* TransportHandle.is_connected()
    batch_seq,       \* OutboxProcessor.batch_seq
    sent,            \* OutboxBatch messages handed to the transport
    ohist,           \* history of the last BatchAck handled (for the properties)
    \* ---- hub.rs / aggregator.rs: the Hub of the store ----
    conn,            \* one handle_socket task per WebSocket connection
    clients,         \* HubState.clients: device id -> the connection that registered
    hub_out,         \* messages the Hub sent on each connection
    delta_rx,        \* hub -> DeltaProcessor channel (HubState.delta_tx)
    cmd_rx,          \* AggregatorHandle -> InventoryAggregator command channel
    pending,         \* InventoryAggregator.pending: product id -> PendingDelta
    broadcasts,      \* InventoryUpdate messages handed to HubHandle::broadcast
    hhist,           \* history of what reached the Hub (for the properties)
    \* ---- cloud-api: db.rs ----
    sync_cursors,    \* sync_cursors table: (store, stream) -> position
    \* ---- discovery.rs ----
    scan,            \* discover_hubs: the scan in progress and its hubs map
    \* ---- hub.rs broadcast fan-out ----
    fan,             \* the broadcast channel, its subscribers and their outgoing queues
    \* ---- agent.rs and transport.rs: the handshake ----
    link,            \* the agent's transport, its router and the peer of its connection
    \* ---- agent.rs message_router ----
    router,          \* what message_router handed to the outbox and the status, and what it was given
    \* ---- cloud_auth.rs ----
    auth,            \* CloudAuth: the clock, the cached token and the last get_token call
    \* ---- transport.rs reconnect loop ----
    transport,       \* Transport::run: its state, its backoff and the delays slept since the last Connected
    \* ---- election.rs handle_heartbeat (history) ----
    heard,           \* the last heartbeat an election service handled, and the state it found
    \* ---- election.rs do_discovery_and_election (history) ----
    scanned,         \* the last startup scan of an election service: its best hub and whether it was challenged
    \* ---- cloud_auth.rs CloudAuth.token (RwLock) ----
    token_lock,      \* the token RwLock of a CloudAuth shared by concurrent get_token calls: clock, cached token, tokens issued, the holder of the write guard, each call's position, calls made
    \* ---- aggregator.rs InventoryAggregator::run (history) ----
    agg,             \* the aggregator task: stopped after Shutdown; history: commands sent, sum of the deltas handle_delta received per product
    \* ---- inbound.rs apply_product_update (statement by statement) ----
    applier          \* apply_product_update between its SELECT and its write: position, the update, the row it read; local writes made

electionVars == <<role, term, primary_id, last_heartbeat, epc, heartbeats>>
inboundVars  == <<seen_term, update_rx, products, inventory_deltas, acks, now, hist>>
outboxVars   == <<sync_outbox, sales, fpc, connected, batch_seq, sent, ohist>>
hubVars      == <<conn, clients, hub_out, delta_rx, cmd_rx, pending, broadcasts, hhist>>
\* cloud-api: the sync_cursors table.
cloudVars == <<sync_cursors>>

\* discovery.rs: one discovery scan of a device.
discoveryVars == <<scan>>

\* hub.rs: the broadcast channel and the per-connection forwarding tasks.
fanoutVars == <<fan>>

\* agent.rs, transport.rs: one agent, its transport and the server it connects to.
handshakeVars == <<link>>

\* agent.rs: the router's outputs besides the inbound channel.
routerVars == <<router>>

\* cloud_auth.rs: the token cache of one CloudAuth.
authVars == <<auth>>

\* transport.rs: the reconnect loop of one transport.
transportVars == <<transport>>

\* election.rs: the last heartbeat handled.
heardVars == <<heard>>

\* election.rs: the last startup scan.
scannedVars == <<scanned>>

\* cloud_auth.rs: the token lock and its callers.
lockVars == <<token_lock>>

\* aggregator.rs: the run loop and what it received.
aggVars == <<agg>>

\* inbound.rs: the applier between its statements.
applierVars == <<applier>>

\* The components around the store's sync core.
edgeVars == <<cloudVars, discoveryVars, fanoutVars, handshakeVars, routerVars, authVars, transportVars, heardVars, scannedVars, lockVars, aggVars, applierVars>>

\* The variables of the election, inbound, outbox and hub components.
coreVars == <<electionVars, inboundVars, outboxVars, hubVars>>

\* Everything but cloudVars.
exceptCloud == <<coreVars, discoveryVars, fanoutVars, handshakeVars, routerVars, authVars, transportVars, heardVars, scannedVars, lockVars, aggVars, applierVars>>

\* Everything but discoveryVars.
exceptDiscovery == <<coreVars, cloudVars, fanoutVars, handshakeVars, routerVars, authVars, transportVars, heardVars, scannedVars, lockVars, aggVars, applierVars>>

\* Everything but fanoutVars.
exceptFanout == <<coreVars, cloudVars, discoveryVars, handshakeVars, routerVars, authVars, transportVars, heardVars, scannedVars, lockVars, aggVars, applierVars>>

\* Everything but handshakeVars.
exceptHandshake == <<coreVars, cloudVars, discoveryVars, fanoutVars, routerVars, authVars, transportVars, heardVars, scannedVars, lockVars, aggVars, applierVars>>

\* Everything but routerVars.
exceptRouter == <<coreVars, cloudVars, discoveryVars, fanoutVars, handshakeVars, authVars, transportVars, heardVars, scannedVars, lockVars, aggVars, applierVars>>

\* The edge components but routerVars.
exceptRouterEdge == <<cloudVars, discoveryVars, fanoutVars, handshakeVars, authVars, transportVars, heardVars, scannedVars, lockVars, aggVars, applierVars>>

\* Everything but authVars.
exceptAuth == <<coreVars, cloudVars, discoveryVars, fanoutVars, handshakeVars, routerVars, transportVars, heardVars, scannedVars, lockVars, aggVars, applierVars>>

\* Everything but transportVars.
exceptTransport == <<coreVars, cloudVars, discoveryVars, fanoutVars, handshakeVars, routerVars, authVars, heardVars, scannedVars, lockVars, aggVars, applierVars>>

\* Everything but heardVars.
exceptHeard == <<coreVars, cloudVars, discoveryVars, fanoutVars, handshakeVars, routerVars, authVars, transportVars, scannedVars, lockVars, aggVars, applierVars>>

\* The edge components but heardVars.
exceptHeardEdge == <<cloudVars, discoveryVars, fanoutVars, handshakeVars, routerVars, authVars, transportVars, scannedVars, lockVars, aggVars, applierVars>>

\* Everything but scannedVars.
exceptScanned == <<coreVars, cloudVars, discoveryVars, fanoutVars, handshakeVars, routerVars, authVars, transportVars, heardVars, lockVars, aggVars, applierVars>>

\* The edge components but scannedVars.
exceptScannedEdge == <<cloudVars, discoveryVars, fanoutVars, handshakeVars, routerVars, authVars, transportVars, heardVars, lockVars, aggVars, applierVars>>

\* Everything but lockVars.
exceptLock == <<coreVars, cloudVars, discoveryVars, fanoutVars, handshakeVars, routerVars, authVars, transportVars, heardVars, scannedVars, aggVars, applierVars>>

\* Everything but aggVars.
exceptAgg == <<coreVars, cloudVars, discoveryVars, fanoutVars, handshakeVars, routerVars, authVars, transportVars, heardVars, scannedVars, lockVars, applierVars>>

\* The edge components but aggVars.
exceptAggEdge == <<cloudVars, discoveryVars, fanoutVars, handshakeVars, routerVars, authVars, transportVars, heardVars, scannedVars, lockVars, applierVars>>

\* Everything but applierVars.
exceptApplier == <<coreVars, cloudVars, discoveryVars, fanoutVars, handshakeVars, routerVars, authVars, transportVars, heardVars, scannedVars, lockVars, aggVars>>

\* The edge components but applierVars.
exceptApplierEdge == <<cloudVars, discoveryVars, fanoutVars, handshakeVars, routerVars, authVars, transportVars, heardVars, scannedVars, lockVars, aggVars>>

vars == <<electionVars, inboundVars, outboxVars, hubVars, edgeVars>>

-----------------------------------------------------------------------------
(* Bounds *)

\* Election terms explored: run_election is not started beyond this term.
MaxTerm == 3

\* Highest sync version carried by an EntityUpdate.
MaxVersion == 2

\* Hub messages the router receives in one run.
MaxMessages == 2

\* Inventory deltas (and the product updates among them) received in one run.
MaxDeltas == 3

\* Capacity of the router -> applier channel that is explored (100 in the code).
MaxQueue == 2

\* Sales created in one run.
MaxSales == 3

\* Rows queued in sync_outbox in one run.
MaxEntries == 4

\* sync.batch_size of the configuration that is explored (100 by default).
BatchSize == 3

\* OutboxBatch messages sent in one run.
MaxBatches == 1
MaxTicks == 2
MaxPolls == 11
MaxInFlight == 2
MaxRetryRows == 2

\* WebSocket connections the Hub accepts in one run.
MaxConns == 2

\* Messages the Hub receives from its clients in one run.
MaxUploads == 2
MaxDeltaMsgs == 3
MaxPosition == 2

-----------------------------------------------------------------------------
(***************************************************************************)
(* ELECTION (crates/titan-sync/src/election.rs)                            *)
(***************************************************************************)

\* Device IDs; the numbers stand for the IDs in lexicographic order.
Devices == {1, 2, 3}

\* Option::None for primary_id.
NoDevice == 0

\* device.priority of each device (two devices tie, one is higher).
Priority(d) == IF d = 3 THEN 60 ELSE 50

\* Devices configured with a forced mode: 4 primary, 5 secondary, 6 offline.
ForcedDevices == {4, 5, 6}
AllDevices == Devices \cup ForcedDevices

\* sync.mode of each device.
Mode(d) ==
    IF d = 4 THEN "primary"
    ELSE IF d = 5 THEN "secondary"
    ELSE IF d = 6 THEN "offline"
    ELSE "auto"

\* (variant) every mode may become PRIMARY.
can_be_primary_any(m) == TRUE

\* SyncMode::can_be_primary
can_be_primary(m) == m \in {"auto", "primary"}

\* A HubAnnounce as discover_hubs returns it (DiscoveredHub).
DiscoveredHub(p) == [device_id |-> p, election_term |-> term[p], priority |-> Priority(p)]

\* The announces a scan by d can collect: every device that believes itself
\* PRIMARY answers a HubRequest with its term; any answer may be lost.
\* discover_hubs drops the device's own announce.
Announcers(d) == {p \in AllDevices \ {d} : role[p] = "primary"}

\* (variant) on equal priority the larger device ID is the maximum.
HubBetterLargerId(a, b) ==
    \/ a.priority > b.priority
    \/ a.priority = b.priority /\ a.device_id > b.device_id

\* max_by of do_discovery_and_election: higher priority; on equal priority
\* the comparison is reversed (b.device_id.cmp(a.device_id)), so the
\* smaller device ID is the maximum.
HubBetter(a, b) ==
    \/ a.priority > b.priority
    \/ a.priority = b.priority /\ a.device_id < b.device_id

best_hub(hubs) == CHOOSE h \in hubs : \A o \in hubs \ {h} : HubBetter(h, o)

\* ElectionService::should_challenge
should_challenge(d, hub) ==
    \/ Priority(d) > hub.priority
    \/ Priority(d) = hub.priority /\ d < hub.device_id

\* ElectionService::run_election up to its sleep: CANDIDATE, term + 1.
\* (With a mode that cannot be PRIMARY it returns at once.)
RunElectionBegin(d) ==
    IF can_be_primary(Mode(d))
    THEN /\ term[d] < MaxTerm
         /\ role' = [role EXCEPT ![d] = "candidate"]
         /\ term' = [term EXCEPT ![d] = term[d] + 1]
         /\ epc' = [epc EXCEPT ![d] = "election_sleep"]
         /\ UNCHANGED <<primary_id, last_heartbeat>>
    ELSE /\ epc' = [epc EXCEPT ![d] = "loop"]
         /\ UNCHANGED <<role, term, primary_id, last_heartbeat>>

\* ElectionService::become_primary
become_primary(d) ==
    /\ role' = [role EXCEPT ![d] = "primary"]
    /\ primary_id' = [primary_id EXCEPT ![d] = d]
    /\ last_heartbeat' = [last_heartbeat EXCEPT ![d] = "fresh"]
    /\ UNCHANGED term

\* ElectionService::become_secondary(Some(hub)): the hub's term is stored as is.
become_secondary_of(d, hub) ==
    /\ role' = [role EXCEPT ![d] = "secondary"]
    /\ primary_id' = [primary_id EXCEPT ![d] = hub.device_id]
    /\ term' = [term EXCEPT ![d] = hub.election_term]
    /\ last_heartbeat' = [last_heartbeat EXCEPT ![d] = "fresh"]

\* ElectionService::become_secondary(None)
become_secondary_none(d) ==
    /\ role' = [role EXCEPT ![d] = "secondary"]
    /\ primary_id' = [primary_id EXCEPT ![d] = NoDevice]
    /\ last_heartbeat' = [last_heartbeat EXCEPT ![d] = "none"]
    /\ UNCHANGED term

\* ElectionService::do_discovery_and_election with the scan's result `hubs`
\* (an Err from discover_hubs runs the election like an empty result).
do_discovery_and_election(d, hubs) ==
    IF hubs = {}
    THEN RunElectionBegin(d)
    ELSE LET hub == best_hub(hubs) IN
         IF should_challenge(d, hub)
         THEN RunElectionBegin(d)
         ELSE /\ become_secondary_of(d, hub)
              /\ epc' = [epc EXCEPT ![d] = "loop"]

\* ElectionService::run, from the start to the main loop: the initial role
\* by mode (forced PRIMARY calls become_primary), then in AUTO mode the
\* initial discovery.
Startup(d) ==
    /\ epc[d] = "init"
    /\ IF Mode(d) = "primary"
       THEN /\ become_primary(d)
            /\ epc' = [epc EXCEPT ![d] = "loop"]
       ELSE IF Mode(d) \in {"secondary", "offline"}
       THEN /\ role' = [role EXCEPT ![d] = Mode(d)]
            /\ epc' = [epc EXCEPT ![d] = "loop"]
            /\ UNCHANGED <<term, primary_id, last_heartbeat>>
       ELSE \E answered \in SUBSET Announcers(d) :
               do_discovery_and_election(d, {DiscoveredHub(p) : p \in answered})
    /\ UNCHANGED <<heartbeats, inboundVars, outboxVars, hubVars, edgeVars>>

\* The startup of an AUTO device, with the scan's best hub, the device's term
\* before the scan and the challenge decision kept in scanned.
StartupScan(d, answered) ==
    /\ epc[d] = "init"
    /\ Mode(d) = "auto"
    /\ answered \subseteq Announcers(d)
    /\ LET hubs == {DiscoveredHub(p) : p \in answered}
       IN /\ do_discovery_and_election(d, hubs)
          /\ scanned' = IF hubs = {}
                        THEN [device |-> d, answered |-> {}, hub_id |-> NoDevice,
                              challenged |-> FALSE, hub_term |-> 0,
                              own_term |-> term[d]]
                        ELSE [device |-> d, answered |-> answered,
                              hub_id |-> best_hub(hubs).device_id,
                              challenged |-> should_challenge(d, best_hub(hubs)),
                              hub_term |-> best_hub(hubs).election_term,
                              own_term |-> term[d]]
    /\ UNCHANGED <<heartbeats, inboundVars, outboxVars, hubVars, exceptScannedEdge>>

\* run_election after its sleep: still CANDIDATE => become_primary.
ElectionTimeout(d) ==
    /\ epc[d] = "election_sleep"
    /\ IF role[d] = "candidate"
       THEN become_primary(d)
       ELSE UNCHANGED <<role, term, primary_id, last_heartbeat>>
    /\ epc' = [epc EXCEPT ![d] = "loop"]
    /\ UNCHANGED <<heartbeats, inboundVars, outboxVars, hubVars, edgeVars>>

\* A PRIMARY broadcasts a Heartbeat under its term (every 5 s).
SendHeartbeat(p) ==
    /\ role[p] = "primary"
    /\ [device_id |-> p, election_term |-> term[p]] \notin heartbeats
    /\ heartbeats' = heartbeats \cup {[device_id |-> p, election_term |-> term[p]]}
    /\ UNCHANGED <<role, term, primary_id, last_heartbeat, epc, inboundVars, outboxVars, hubVars, edgeVars>>

\* (variant) a PRIMARY also steps down on a heartbeat of its own term.
handle_heartbeat_equal_term(d, device_id, hbterm) ==
    IF hbterm < term[d]
    THEN UNCHANGED <<role, term, primary_id, last_heartbeat>>
    ELSE /\ term' = [term EXCEPT ![d] = hbterm]
         /\ primary_id' = [primary_id EXCEPT ![d] = device_id]
         /\ last_heartbeat' = [last_heartbeat EXCEPT ![d] = "fresh"]
         /\ role' = [role EXCEPT ![d] = "secondary"]

\* (variant) a PRIMARY keeps its role whatever the heartbeat's term.
handle_heartbeat_no_step_down(d, device_id, hbterm) ==
    IF hbterm < term[d]
    THEN UNCHANGED <<role, term, primary_id, last_heartbeat>>
    ELSE /\ term' = [term EXCEPT ![d] = hbterm]
         /\ primary_id' = [primary_id EXCEPT ![d] = device_id]
         /\ last_heartbeat' = [last_heartbeat EXCEPT ![d] = "fresh"]
         /\ role' = [role EXCEPT ![d] =
                        IF role[d] = "candidate" THEN "secondary" ELSE role[d]]

\* ElectionService::handle_heartbeat, as a function of the device's state.
handle_heartbeat(d, device_id, hbterm) ==
    IF hbterm < term[d]
    THEN UNCHANGED <<role, term, primary_id, last_heartbeat>>
    ELSE LET stepDown == role[d] = "primary" /\ hbterm > term[d]
             role1 == IF stepDown THEN "secondary" ELSE role[d]
         IN /\ term' = [term EXCEPT ![d] = hbterm]
            /\ primary_id' = [primary_id EXCEPT ![d] = device_id]
            /\ last_heartbeat' = [last_heartbeat EXCEPT ![d] = "fresh"]
            /\ role' = [role EXCEPT ![d] =
                           IF role1 = "candidate" THEN "secondary" ELSE role1]

\* ElectionCommand::RecordHeartbeat taken from the command channel in the
\* main loop; the heartbeat may be any one emitted so far by another device.
RecordHeartbeat(d) ==
    /\ epc[d] = "loop"
    /\ \E hb \in heartbeats :
          /\ hb.device_id # d
          /\ handle_heartbeat(d, hb.device_id, hb.election_term)
    /\ UNCHANGED <<epc, heartbeats, inboundVars, outboxVars, hubVars, edgeVars>>

\* The same step, with the heartbeat handled and the state it found kept in
\* heard.
HandleHeartbeat(d, hb) ==
    /\ epc[d] = "loop"
    /\ hb \in heartbeats
    /\ hb.device_id # d
    /\ handle_heartbeat(d, hb.device_id, hb.election_term)
    /\ heard' = [device |-> d, device_id |-> hb.device_id, election_term |-> hb.election_term,
                 role |-> role[d], term |-> term[d], primary_id |-> primary_id[d]]
    /\ UNCHANGED <<epc, heartbeats, inboundVars, outboxVars, hubVars, exceptHeardEdge>>

\* The heartbeat timeout (15 s) passes without a heartbeat.
HeartbeatExpire(d) ==
    /\ last_heartbeat[d] = "fresh"
    /\ role[d] = "secondary"
    /\ last_heartbeat' = [last_heartbeat EXCEPT ![d] = "expired"]
    /\ UNCHANGED <<role, term, primary_id, epc, heartbeats, inboundVars, outboxVars, hubVars, edgeVars>>

\* ElectionService::check_heartbeat_timeout on the 1 s tick of the main loop.
CheckHeartbeatTimeout(d) ==
    /\ epc[d] = "loop"
    /\ role[d] = "secondary"
    /\ last_heartbeat[d] \in {"none", "expired"}
    /\ Mode(d) = "auto"
    /\ \E answered \in SUBSET Announcers(d) :
          do_discovery_and_election(d, {DiscoveredHub(p) : p \in answered})
    /\ UNCHANGED <<heartbeats, inboundVars, outboxVars, hubVars, edgeVars>>

\* ElectionCommand::ForcePrimary
ForcePrimary(d) ==
    /\ epc[d] = "loop"
    /\ IF can_be_primary(Mode(d))
       THEN become_primary(d)
       ELSE UNCHANGED <<role, term, primary_id, last_heartbeat>>
    /\ UNCHANGED <<epc, heartbeats, inboundVars, outboxVars, hubVars, edgeVars>>

\* ElectionCommand::ForceSecondary
ForceSecondary(d) ==
    /\ epc[d] = "loop"
    /\ become_secondary_none(d)
    /\ UNCHANGED <<epc, heartbeats, inboundVars, outboxVars, hubVars, edgeVars>>

\* ElectionCommand::TriggerElection
TriggerElection(d) ==
    /\ epc[d] = "loop"
    /\ Mode(d) = "auto"
    /\ \E answered \in SUBSET Announcers(d) :
          do_discovery_and_election(d, {DiscoveredHub(p) : p \in answered})
    /\ UNCHANGED <<heartbeats, inboundVars, outboxVars, hubVars, edgeVars>>

-----------------------------------------------------------------------------
(***************************************************************************)
(* MESSAGE ROUTER AND INBOUND APPLIER (agent.rs, inbound.rs)               *)
(***************************************************************************)

ProductIds == {"p1", "p2"}

\* Local writes of the POS during one run.
MaxLocalWrites == 2

\* A products row: name stands for the catalog fields (sku, barcode, name,
\* price...).  current_stock is never NULL in these rows, so the COALESCE of
\* apply_inventory_delta returns the stock itself.
Row(name, active, updated, stock, version) ==
    [present |-> TRUE, name |-> name, is_active |-> active, updated_at |-> updated,
     current_stock |-> stock, sync_version |-> version]

\* No row with that id in the products table.
Absent ==
    [present |-> FALSE, name |-> "", is_active |-> FALSE, updated_at |-> 0,
     current_stock |-> 0, sync_version |-> 0]

\* update.data, by the struct it deserialises into: a titan_core::Product
\* (the hub's snapshot is active, stamped at time 0 and has stock 7), the
\* InventoryDeltaData of apply_inventory_delta, or neither.
ProductPayload(id, name) == [parses |-> "Product", id |-> id, name |-> name, delta |-> 0]

DeltaPayload(product_id, delta) ==
    [parses |-> "InventoryDeltaData", id |-> product_id, name |-> "", delta |-> delta]

NoData == [parses |-> "nothing", id |-> "", name |-> "", delta |-> 0]

ProductData == {ProductPayload(id, "B") : id \in ProductIds}

\* Outbox entry IDs of the inventory deltas, and the data each one carries.
DeltaIds == {"e1", "e2", "e3", "e4"}

DeltaData(e) ==
    CASE e = "e1" -> DeltaPayload("p1", -2)
      [] e = "e2" -> DeltaPayload("p1", -1)
      [] e = "e3" -> DeltaPayload("p1", 5)
      [] e = "e4" -> DeltaPayload("p2", 3)

\* protocol.rs EntityUpdate (updated_at left out: the applier never reads it).
EntityUpdate(ty, id, op, data, v) ==
    [entity_type |-> ty, entity_id |-> id, operation |-> op, data |-> data, version |-> v]

ProductUpdates ==
    {EntityUpdate("product", id, "upsert", d, v) :
        id \in ProductIds, d \in ProductData \cup {NoData}, v \in 1..MaxVersion}
    \cup
    {EntityUpdate("product", id, op, NoData, v) :
        id \in ProductIds, op \in {"patch", "delete"}, v \in 1..MaxVersion}

DeltaUpdates ==
    {EntityUpdate("inventory_delta", e, "upsert", DeltaData(e), 1) : e \in DeltaIds}
    \cup {EntityUpdate("inventory_delta", "e1", "upsert", NoData, 1)}

OtherUpdates ==
    {EntityUpdate(ty, "x1", "upsert", NoData, 1) : ty \in {"tax_rate", "receipt"}}

\* Product updates that arrive among the inventory deltas: p2 is inserted,
\* p1 is replaced or soft-deleted.
CatalogUpdates ==
    {EntityUpdate("product", "p2", "upsert", ProductPayload("p2", "B"), 1),
     EntityUpdate("product", "p1", "upsert", ProductPayload("p1", "B"), MaxVersion),
     EntityUpdate("product", "p1", "delete", NoData, MaxVersion)}

Ok(v) == [success |-> TRUE, applied_version |-> v]
Err == [success |-> FALSE, applied_version |-> 0]

\* What an apply_* function leaves behind: the tables and its SyncResult<i64>.
Outcome(prods, deltas, res) ==
    [products |-> prods, inventory_deltas |-> deltas, result |-> res]

\* InboundHandler::update_product_from_sync: UPDATE products SET <catalog
\* fields, is_active, updated_at, sync_version> WHERE id = product.id.
update_product_from_sync(prods, product) ==
    IF ~prods[product.id].present
    THEN prods
    ELSE [prods EXCEPT ![product.id] =
            [@ EXCEPT !.name = product.name,
                      !.is_active = TRUE,
                      !.updated_at = 0,
                      !.sync_version = product.sync_version]]

\* InboundHandler::insert_product_from_sync: INSERT INTO products.
insert_product_from_sync(prods, product) ==
    [prods EXCEPT ![product.id] = Row(product.name, TRUE, 0, 7, product.sync_version)]

\* InboundHandler::soft_delete_product
soft_delete_product(prods, product_id, version, t) ==
    IF ~prods[product_id].present
    THEN prods
    ELSE [prods EXCEPT ![product_id] =
            [@ EXCEPT !.is_active = FALSE, !.updated_at = t, !.sync_version = version]]

\* (mutant) the version check lets an update of the local version through.
IsStaleStrict(current, update) ==
    current.present /\ current.sync_version > update.version

\* The version check of apply_product_update: skip a stale update.
IsStale(current, update) ==
    current.present /\ current.sync_version >= update.version

\* InboundHandler::apply_product_update after the version check: the match
\* on the operation, run on the table as it is now with the row `current`
\* that get_by_id returned.
apply_product_write(prods, deltas, current, update, t) ==
    LET unchanged == Outcome(prods, deltas,
                             Ok(IF current.present THEN current.sync_version ELSE 0))
    IN   CASE update.operation = "upsert" ->
                IF update.data.parses # "Product"
                THEN Outcome(prods, deltas, Err)
                ELSE LET product == [id |-> update.data.id, name |-> update.data.name,
                                     sync_version |-> update.version]
                     IN IF current.present
                        THEN Outcome(update_product_from_sync(prods, product), deltas,
                                     Ok(update.version))
                        ELSE IF prods[product.id].present
                             THEN Outcome(prods, deltas, Err)  \* primary key taken
                             ELSE Outcome(insert_product_from_sync(prods, product),
                                          deltas, Ok(update.version))
           [] update.operation = "patch" -> unchanged
           [] update.operation = "delete" ->
                Outcome(soft_delete_product(prods, update.entity_id, update.version, t),
                        deltas, Ok(update.version))
           [] OTHER -> unchanged

\* InboundHandler::apply_product_update run without another writer between
\* its statements.
apply_product_update(prods, deltas, update, t) ==
    LET current == prods[update.entity_id]
    IN IF IsStale(current, update)
       THEN Outcome(prods, deltas, Ok(current.sync_version))
       ELSE apply_product_write(prods, deltas, current, update, t)

\* apply_product_update, first statement: get_by_id and the version check.
\* A stale update returns at once; otherwise the handler goes on to its
\* write with the row it has read.
ApplierCheck(update) ==
    /\ applier.pc = "idle"
    /\ LET current == products[update.entity_id]
       IN applier' = IF IsStale(current, update)
                     THEN [applier EXCEPT !.update = update, !.current = current]
                     ELSE [applier EXCEPT !.pc = "checked", !.update = update,
                                          !.current = current]
    /\ UNCHANGED inboundVars
    /\ UNCHANGED <<electionVars, outboxVars, hubVars, exceptApplierEdge>>

\* apply_product_update, second statement: the UPDATE or INSERT of the
\* operation, a separate query on the pool.
ApplierWrite ==
    /\ applier.pc = "checked"
    /\ products' = apply_product_write(products, inventory_deltas, applier.current,
                                       applier.update, now).products
    /\ applier' = [applier EXCEPT !.pc = "idle"]
    /\ UNCHANGED <<seen_term, update_rx, inventory_deltas, acks, now, hist>>
    /\ UNCHANGED <<electionVars, outboxVars, hubVars, exceptApplierEdge>>

\* ProductRepository::update, update_stock and soft_delete as the POS calls
\* them: one UPDATE each, with sync_version = sync_version + 1.
local_write(prods, id, kind) ==
    IF ~prods[id].present THEN prods
    ELSE [prods EXCEPT ![id] =
            [@ EXCEPT !.name = IF kind = "update" THEN "L" ELSE @,
                      !.current_stock = IF kind = "update_stock" THEN @ - 1 ELSE @,
                      !.is_active = IF kind = "soft_delete" THEN FALSE ELSE @,
                      !.sync_version = @ + 1]]

LocalWrite(id, kind) ==
    /\ applier.writes < MaxLocalWrites
    /\ products[id].present
    /\ products' = local_write(products, id, kind)
    /\ applier' = [applier EXCEPT !.writes = @ + 1]
    /\ UNCHANGED <<seen_term, update_rx, inventory_deltas, acks, now, hist>>
    /\ UNCHANGED <<electionVars, outboxVars, hubVars, exceptApplierEdge>>

\* InboundHandler::record_inventory_delta: a row with a fresh uuid as id and
\* the update's entity_id as reference_id.
record_inventory_delta(deltas, product_id, delta, sync_id) ==
    Append(deltas, [reference_id |-> sync_id, product_id |-> product_id, delta |-> delta])

\* (mutant) the delta is stored as the stock instead of being added to it.
apply_inventory_delta_absolute(prods, deltas, update, t) ==
    IF update.data.parses # "InventoryDeltaData"
    THEN Outcome(prods, deltas, Err)
    ELSE LET product_id == update.data.id
             prods1 == IF ~prods[product_id].present
                       THEN prods
                       ELSE [prods EXCEPT ![product_id] =
                               [@ EXCEPT !.current_stock = update.data.delta,
                                         !.updated_at = t]]
         IN Outcome(prods1,
                    record_inventory_delta(deltas, product_id, update.data.delta,
                                           update.entity_id),
                    Ok(update.version))

\* InboundHandler::apply_inventory_delta
apply_inventory_delta(prods, deltas, update, t) ==
    IF update.data.parses # "InventoryDeltaData"
    THEN Outcome(prods, deltas, Err)
    ELSE LET product_id == update.data.id
             delta == update.data.delta
             prods1 == IF ~prods[product_id].present
                       THEN prods
                       ELSE [prods EXCEPT ![product_id] =
                               [@ EXCEPT !.current_stock = @ + delta,
                                         !.updated_at = t]]
         IN Outcome(prods1,
                    record_inventory_delta(deltas, product_id, delta, update.entity_id),
                    Ok(update.version))

\* InboundHandler::process_update: dispatch by entity_type.
process_update(prods, deltas, update, t) ==
    CASE update.entity_type = "product" -> apply_product_update(prods, deltas, update, t)
      [] update.entity_type = "inventory_delta" ->
            apply_inventory_delta(prods, deltas, update, t)
      [] update.entity_type \in {"tax_rate", "category", "user"} ->
            Outcome(prods, deltas, Ok(update.version))
      [] OTHER -> Outcome(prods, deltas, Ok(0))

\* (variant) every ack reports success.
UpdateAckAlwaysOk(update, res) ==
    [entity_id |-> update.entity_id, success |-> TRUE,
     applied_version |-> res.applied_version, error |-> "None"]

\* The UpdateAck process_update hands to the transport: error is None for an
\* Ok result and Some(e.to_string()) for an Err.
UpdateAck(update, res) ==
    [entity_id |-> update.entity_id, success |-> res.success,
     applied_version |-> res.applied_version,
     error |-> IF res.success THEN "None" ELSE "Some"]

\* message_router, SyncMessage::Welcome: logged, handshake done.  The term it
\* carries is a term the device has now observed.
RouteWelcome(t) ==
    /\ seen_term' = IF t > seen_term THEN t ELSE seen_term
    /\ hist' = [hist EXCEPT !.routed = @ + 1]
    /\ UNCHANGED <<update_rx, products, inventory_deltas, acks, now>>
    /\ UNCHANGED <<electionVars, outboxVars, hubVars, edgeVars>>

\* message_router, SyncMessage::EntityUpdate: handed to the inbound handler.
\* `t` is the election term of the Hub that produced the message; the wire
\* message has no field for it, so the router cannot read it.
RouteEntityUpdate(update, t) ==
    /\ Len(update_rx) < MaxQueue
    /\ update_rx' = Append(update_rx, [update |-> update, term |-> t])
    /\ hist' = [hist EXCEPT !.routed = @ + 1]
    /\ UNCHANGED <<seen_term, products, inventory_deltas, acks, now>>
    /\ UNCHANGED <<electionVars, outboxVars, hubVars, edgeVars>>

\* InboundHandler::run: take the next update from the channel, process it,
\* send the ack.
ProcessUpdate ==
    /\ update_rx # <<>>
    /\ LET update == Head(update_rx).update
           out == process_update(products, inventory_deltas, update, now)
           again == hist.last = update
       IN /\ products' = out.products
          /\ inventory_deltas' = out.inventory_deltas
          /\ acks' = Append(acks, UpdateAck(update, out.result))
          /\ hist' = [hist EXCEPT
                        !.last = update,
                        !.pre = products,
                        !.repeated = again,
                        !.once = IF again THEN @
                                 ELSE [products |-> out.products,
                                       inventory_deltas |-> out.inventory_deltas]]
    /\ update_rx' = Tail(update_rx)
    /\ now' = now + 1
    /\ UNCHANGED seen_term
    /\ UNCHANGED <<electionVars, outboxVars, hubVars, edgeVars>>

-----------------------------------------------------------------------------
(***************************************************************************)
(* Outbox: finalize_sale (commands/sale.rs), SyncOutboxRepository          *)
(* (titan-db sync.rs) and OutboxProcessor (titan-sync outbox.rs).          *)
(* Timestamps are kept as "NULL" or "set"; a row's id is its position in   *)
(* the table, which is also its created_at order.                          *)
(***************************************************************************)
SaleIds == 1..MaxSales

\* outbox.rs: entries with this many attempts are skipped by process_batch.
MAX_RETRY_ATTEMPTS == 10

\* SyncOutboxEntry as queue_for_sync builds it.
SyncOutboxEntry(id, entity_type, entity_id) ==
    [id |-> id, entity_type |-> entity_type, entity_id |-> entity_id,
     attempts |-> 0, last_error |-> "NULL", attempted_at |-> "NULL",
     synced_at |-> "NULL"]

\* SyncOutboxRepository::queue_for_sync
queue_for_sync(outbox, entity_type, entity_id) ==
    Append(outbox, SyncOutboxEntry(Len(outbox) + 1, entity_type, entity_id))

\* (variant) get_pending without the LIMIT.
get_pending_unlimited(outbox, limit) ==
    SelectSeq(outbox, LAMBDA e : e.synced_at = "NULL")

\* SyncOutboxRepository::get_pending
get_pending(outbox, limit) ==
    LET unsynced == SelectSeq(outbox, LAMBDA e : e.synced_at = "NULL")
    IN IF Len(unsynced) <= limit THEN unsynced ELSE SubSeq(unsynced, 1, limit)

\* SyncOutboxRepository::mark_synced
mark_synced(outbox, id) ==
    [i \in DOMAIN outbox |->
        IF outbox[i].id = id
        THEN [outbox[i] EXCEPT !.synced_at = "set", !.attempted_at = "set"]
        ELSE outbox[i]]

\* (mutant) a failure also takes the row out of the pending queue.
mark_failed_dropping(outbox, id, error) ==
    [i \in DOMAIN outbox |->
        IF outbox[i].id = id
        THEN [outbox[i] EXCEPT !.attempts = @ + 1, !.last_error = error,
                               !.attempted_at = "set", !.synced_at = "set"]
        ELSE outbox[i]]

\* SyncOutboxRepository::mark_failed
mark_failed(outbox, id, error) ==
    [i \in DOMAIN outbox |->
        IF outbox[i].id = id
        THEN [outbox[i] EXCEPT !.attempts = @ + 1, !.last_error = error,
                               !.attempted_at = "set"]
        ELSE outbox[i]]

\* protocol.rs FailedEntry and BatchAck
FailedEntry(id, error, retryable) == [id |-> id, error |-> error, retryable |-> retryable]
BatchAck(acked_ids, failed_ids) == [acked_ids |-> acked_ids, failed_ids |-> failed_ids]

\* Display of a bool, as format!("{}") prints it.
BoolStr(b) == IF b THEN "true" ELSE "false"

\* The error_msg handle_batch_ack builds for a failed entry.
error_msg(failed) ==
    "Sync failed: " \o failed.error \o " (retryable: " \o BoolStr(failed.retryable) \o ")"

\* handle_batch_ack, first loop: mark_synced for every acked id.
RECURSIVE MarkAcked(_, _)
MarkAcked(outbox, ids) ==
    IF ids = {} THEN outbox
    ELSE LET id == CHOOSE x \in ids : TRUE
         IN MarkAcked(mark_synced(outbox, id), ids \ {id})

\* handle_batch_ack, second loop: mark_failed for every failed entry, in order.
RECURSIVE MarkFailed(_, _)
MarkFailed(outbox, failed_ids) ==
    IF failed_ids = <<>> THEN outbox
    ELSE MarkFailed(mark_failed(outbox, Head(failed_ids).id, error_msg(Head(failed_ids))),
                    Tail(failed_ids))

\* OutboxProcessor::handle_batch_ack
handle_batch_ack(outbox, ack) == MarkFailed(MarkAcked(outbox, ack.acked_ids), ack.failed_ids)

\* Ids of the rows handed to the transport in some OutboxBatch.
SentIds == UNION {{b.entries[k] : k \in DOMAIN b.entries} : b \in {sent[j] : j \in DOMAIN sent}}

\* The BatchAck messages a Hub can answer a batch with: it acknowledges
\* entries of the batch and reports at most one of them as failed.
BatchAcks(batch) ==
    LET ids == {batch.entries[k] : k \in DOMAIN batch.entries}
        failures == {FailedEntry(id, "FK_VIOLATION", r) : id \in ids, r \in BOOLEAN}
        lists == {<<>>} \cup {<<f>> : f \in failures}
    IN {BatchAck(a, f) : a \in SUBSET ids, f \in lists}

\* The BatchAck messages that list every entry of the batch exactly once:
\* all acknowledged, or one of them failed.
CompleteAcks(batch) ==
    LET ids == {batch.entries[k] : k \in DOMAIN batch.entries}
    IN {BatchAck(ids, <<>>)}
         \cup {BatchAck(ids \ {id}, <<FailedEntry(id, "FK_VIOLATION", TRUE)>>) : id \in ids}

\* What a Hub that cannot store anything answers: every entry of the batch
\* failed; and the full acknowledgement.
WholeBatchAcks(batch) ==
    LET ids == {batch.entries[k] : k \in DOMAIN batch.entries}
    IN {BatchAck(ids, <<>>),
        BatchAck({}, [k \in DOMAIN batch.entries |->
                        FailedEntry(batch.entries[k], "FK_VIOLATION", TRUE)])}

\* create_sale: a sale row in status draft.
CreateSale(s) ==
    /\ sales[s] = "none"
    /\ sales' = [sales EXCEPT ![s] = "draft"]
    /\ UNCHANGED <<sync_outbox, fpc, connected, batch_seq, sent, ohist>>
    /\ UNCHANGED <<electionVars, inboundVars, hubVars, edgeVars>>

\* finalize_sale, first statement: SaleRepository::finalize_sale sets the
\* status to completed (a sale that is not a draft is an error: no change).
FinalizeSaleUpdate(s) ==
    /\ fpc[s] = "idle"
    /\ sales[s] = "draft"
    /\ sales' = [sales EXCEPT ![s] = "completed"]
    /\ fpc' = [fpc EXCEPT ![s] = "finalized"]
    /\ UNCHANGED <<sync_outbox, connected, batch_seq, sent, ohist>>
    /\ UNCHANGED <<electionVars, inboundVars, hubVars, edgeVars>>

\* finalize_sale, get_by_id and queue_for_sync succeed: the outbox row is
\* inserted and the command returns the receipt.
FinalizeSaleQueue(s) ==
    /\ fpc[s] = "finalized"
    /\ sync_outbox' = queue_for_sync(sync_outbox, "SALE", s)
    /\ fpc' = [fpc EXCEPT ![s] = "idle"]
    /\ UNCHANGED <<sales, connected, batch_seq, sent, ohist>>
    /\ UNCHANGED <<electionVars, inboundVars, hubVars, edgeVars>>

\* finalize_sale, get_by_id or queue_for_sync returns an error (the `?`
\* returns it to the caller), or the process stops before the insert.
FinalizeSaleAbort(s) ==
    /\ fpc[s] = "finalized"
    /\ fpc' = [fpc EXCEPT ![s] = "idle"]
    /\ UNCHANGED <<sync_outbox, sales, connected, batch_seq, sent, ohist>>
    /\ UNCHANGED <<electionVars, inboundVars, hubVars, edgeVars>>

\* SyncOutboxRepository::queue_for_sync called for a SALE entity.
QueueForSync(s) ==
    /\ Len(sync_outbox) < MaxEntries
    /\ sync_outbox' = queue_for_sync(sync_outbox, "SALE", s)
    /\ UNCHANGED <<sales, fpc, connected, batch_seq, sent, ohist>>
    /\ UNCHANGED <<electionVars, inboundVars, hubVars, edgeVars>>

\* The transport reaches the Connected state.
Connect ==
    /\ ~connected
    /\ connected' = TRUE
    /\ UNCHANGED <<sync_outbox, sales, fpc, batch_seq, sent, ohist>>
    /\ UNCHANGED <<electionVars, inboundVars, hubVars, edgeVars>>

\* The transport loses the connection.
Disconnect ==
    /\ connected
    /\ connected' = FALSE
    /\ UNCHANGED <<sync_outbox, sales, fpc, batch_seq, sent, ohist>>
    /\ UNCHANGED <<electionVars, inboundVars, hubVars, edgeVars>>

\* (variant) no entry is ever skipped.
within_retry_limit_always(e) == TRUE

\* process_batch: the partition predicate, entries below the retry limit.
within_retry_limit(e) == e.attempts < MAX_RETRY_ATTEMPTS

\* OutboxProcessor::process_batch on a poll tick.  It returns without a
\* change when the transport is not connected or nothing is processable.
ProcessBatch ==
    LET entries == get_pending(sync_outbox, BatchSize)
        processable == SelectSeq(entries, within_retry_limit)
    IN /\ connected
       /\ processable # <<>>
       /\ sent' = Append(sent, [batch_seq |-> batch_seq,
                                entries |-> [k \in DOMAIN processable |-> processable[k].id]])
       /\ batch_seq' = batch_seq + 1
       /\ UNCHANGED <<sync_outbox, sales, fpc, connected, ohist>>
       /\ UNCHANGED <<electionVars, inboundVars, hubVars, edgeVars>>

\* OutboxProcessor::run receives the BatchAck of the next unanswered batch
\* and handles it.
HandleBatchAck(ack) ==
    /\ ohist.n < Len(sent)
    /\ sync_outbox' = handle_batch_ack(sync_outbox, ack)
    /\ ohist' = [n |-> ohist.n + 1, ack |-> ack]
    /\ UNCHANGED <<sales, fpc, connected, batch_seq, sent>>
    /\ UNCHANGED <<electionVars, inboundVars, hubVars, edgeVars>>

-----------------------------------------------------------------------------
(***************************************************************************)
(* Hub: handle_socket and handle_client_message (hub.rs).                  *)
(***************************************************************************)
ConnIds == 1..MaxConns

\* Option::None for a clients entry.
NoConn == 0

\* Device ids of the SECONDARY devices that connect to the Hub.
HubClients == {"d1", "d2"}

\* sync_config.store_id() of the Hub, and the store ids a Hello may carry.
HubStore == "store-A"
StoreIds == {"store-A", "store-B"}

\* What the Hub writes to a socket.
HubMessage(kind, code) == [kind |-> kind, code |-> code]

\* (variant) the store check accepts every store.
store_matches_any(store_id) == TRUE

\* handle_socket: the store_id of the Hello is the Hub's own.
store_matches(store_id) == store_id = HubStore

\* ws_handler: a WebSocket is accepted and handle_socket waits for the Hello.
WsConnect(c) ==
    /\ conn[c].state = "idle"
    /\ conn' = [conn EXCEPT ![c].state = "open"]
    /\ UNCHANGED <<clients, hub_out, delta_rx, cmd_rx, pending, broadcasts, hhist>>
    /\ UNCHANGED <<electionVars, inboundVars, outboxVars, edgeVars>>

\* handle_socket: receive_hello fails (timeout, close, or not a Hello).
HelloFails(c) ==
    /\ conn[c].state = "open"
    /\ conn' = [conn EXCEPT ![c].state = "closed"]
    /\ UNCHANGED <<clients, hub_out, delta_rx, cmd_rx, pending, broadcasts, hhist>>
    /\ UNCHANGED <<electionVars, inboundVars, outboxVars, edgeVars>>

\* handle_socket from the Hello to the receive loop: store check, register,
\* Welcome.  welcome_sent = FALSE is send_message returning an error.
HandleHello(c, device_id, store_id, welcome_sent) ==
    /\ conn[c].state = "open"
    /\ IF ~store_matches(store_id)
       THEN /\ hub_out' = [hub_out EXCEPT ![c] = Append(@, HubMessage("Error", "STORE_MISMATCH"))]
            /\ conn' = [conn EXCEPT ![c] = [state |-> "closed", device_id |-> device_id,
                                            store_id |-> store_id]]
            /\ UNCHANGED clients
       ELSE IF welcome_sent
       THEN /\ clients' = [clients EXCEPT ![device_id] = c]
            /\ hub_out' = [hub_out EXCEPT ![c] = Append(@, HubMessage("Welcome", ""))]
            /\ conn' = [conn EXCEPT ![c] = [state |-> "serving", device_id |-> device_id,
                                            store_id |-> store_id]]
       ELSE /\ clients' = [clients EXCEPT ![device_id] = NoConn]
            /\ conn' = [conn EXCEPT ![c] = [state |-> "closed", device_id |-> device_id,
                                            store_id |-> store_id]]
            /\ UNCHANGED hub_out
    /\ UNCHANGED <<delta_rx, cmd_rx, pending, broadcasts, hhist>>
    /\ UNCHANGED <<electionVars, inboundVars, outboxVars, edgeVars>>

\* handle_socket receive loop: a SyncMessage arrives and handle_client_message
\* forwards it to the delta processor.
ClientMessage(c, msg) ==
    /\ conn[c].state = "serving"
    /\ delta_rx' = Append(delta_rx, [device_id |-> conn[c].device_id, msg |-> msg])
    /\ hhist' = [hhist EXCEPT !.forwarded = @ \cup {c},
                              !.received = Append(@, msg)]
    /\ UNCHANGED <<conn, clients, hub_out, cmd_rx, pending, broadcasts>>
    /\ UNCHANGED <<electionVars, inboundVars, outboxVars, edgeVars>>

\* handle_socket receive loop ends (Close frame, error or end of stream):
\* cleanup and remove_client for the connection's device id.
ConnectionEnds(c) ==
    /\ conn[c].state = "serving"
    /\ conn' = [conn EXCEPT ![c].state = "closed"]
    /\ clients' = [clients EXCEPT ![conn[c].device_id] = NoConn]
    /\ UNCHANGED <<hub_out, delta_rx, cmd_rx, pending, broadcasts, hhist>>
    /\ UNCHANGED <<electionVars, inboundVars, outboxVars, edgeVars>>

-----------------------------------------------------------------------------
(***************************************************************************)
(* Hub: DeltaProcessor and InventoryAggregator (aggregator.rs).            *)
(***************************************************************************)
\* protocol.rs InventoryDelta; NotADelta is a payload that does not parse as one.
InventoryDelta(product_id, delta_quantity) ==
    [parses |-> TRUE, product_id |-> product_id, delta_quantity |-> delta_quantity]
NotADelta == [parses |-> FALSE, product_id |-> "", delta_quantity |-> 0]

\* protocol.rs OutboxEntry and OutboxBatch, and the messages a client sends.
OutboxEntry(id, entity_type, payload) ==
    [id |-> id, entity_type |-> entity_type, payload |-> payload]
OutboxBatch(entities) == [kind |-> "OutboxBatch", entities |-> entities, delta |-> NotADelta]
InventoryDeltaMsg(delta) == [kind |-> "InventoryDelta", entities |-> <<>>, delta |-> delta]

\* The outbox entries the clients upload: two stock deltas for p1 and a sale.
UploadEntries ==
    {OutboxEntry("o1", "InventoryDelta", InventoryDelta("p1", -2)),
     OutboxEntry("o2", "InventoryDelta", InventoryDelta("p1", -1)),
     OutboxEntry("o3", "SALE", NotADelta)}

\* The batches built from them: one entry, or two different entries.
UploadBatches ==
    {OutboxBatch(<<e>>) : e \in UploadEntries}
        \cup {OutboxBatch(<<ef[1], ef[2]>>) :
                 ef \in {x \in UploadEntries \X UploadEntries : x[1] # x[2]}}

\* The InventoryDelta messages the clients send: sales and a return of p1,
\* a receipt of p2.
DeltaMessages ==
    {InventoryDeltaMsg(InventoryDelta("p1", -2)), InventoryDeltaMsg(InventoryDelta("p1", -1)),
     InventoryDeltaMsg(InventoryDelta("p1", 2)), InventoryDeltaMsg(InventoryDelta("p2", 1))}

\* AggregatorCommand
AggregatorCommand(cmd, source_device, delta) ==
    [cmd |-> cmd, source_device |-> source_device, delta |-> delta]

\* DeltaProcessor::start, OutboxBatch arm: one ProcessDelta per entity of
\* type InventoryDelta whose payload parses.
RECURSIVE BatchCommands(_, _)
BatchCommands(device_id, entities) ==
    IF entities = <<>> THEN <<>>
    ELSE LET entity == Head(entities)
             rest == BatchCommands(device_id, Tail(entities))
         IN IF entity.entity_type = "InventoryDelta" /\ entity.payload.parses
            THEN <<AggregatorCommand("ProcessDelta", device_id, entity.payload)>> \o rest
            ELSE rest

\* DeltaProcessor::start, the match on one received message.
DeltaCommands(device_id, msg) ==
    IF msg.kind = "InventoryDelta"
    THEN <<AggregatorCommand("ProcessDelta", device_id, msg.delta)>>
    ELSE IF msg.kind = "OutboxBatch"
    THEN BatchCommands(device_id, msg.entities)
    ELSE <<>>

\* DeltaProcessor::start: one iteration of the receive loop.
DeltaProcessorStep ==
    /\ delta_rx # <<>>
    /\ cmd_rx' = cmd_rx \o DeltaCommands(Head(delta_rx).device_id, Head(delta_rx).msg)
    /\ delta_rx' = Tail(delta_rx)
    /\ hhist' = [hhist EXCEPT !.processed = @ \o Head(delta_rx).msg.entities]
    /\ UNCHANGED <<conn, clients, hub_out, pending, broadcasts>>
    /\ UNCHANGED <<electionVars, inboundVars, outboxVars, edgeVars>>

\* AggregatorConfig.mode of the Hub (the default).
BroadcastMode == "coalesced"

\* Commands sent to one aggregator.
MaxCommands == 4

\* aggregator.rs: a pending map this large is flushed at once.
MAX_PENDING_DELTAS == 1000

NoPending == [present |-> FALSE, delta_quantity |-> 0, source_device |-> ""]

\* protocol.rs InventoryUpdate as broadcast_delta builds it.
InventoryUpdate(product_id, delta_quantity, source_device) ==
    [product_id |-> product_id, delta_quantity |-> delta_quantity,
     source_device_id |-> source_device]

\* (variant) a later delta of the window replaces the pending one.
add_pending_delta_replacing(pend, source_device, delta) ==
    [pend EXCEPT ![delta.product_id] =
        [present |-> TRUE, delta_quantity |-> delta.delta_quantity,
         source_device |-> source_device]]

\* InventoryAggregator::add_pending_delta
add_pending_delta(pend, source_device, delta) ==
    IF pend[delta.product_id].present
    THEN [pend EXCEPT ![delta.product_id].delta_quantity = @ + delta.delta_quantity]
    ELSE [pend EXCEPT ![delta.product_id] =
            [present |-> TRUE, delta_quantity |-> delta.delta_quantity,
             source_device |-> source_device]]

\* The orders in which HashMap::drain can yield the pending entries.
DrainOrders(pend) ==
    LET keys == {p \in DOMAIN pend : pend[p].present}
    IN {o \in [1..Cardinality(keys) -> keys] : \A i, j \in DOMAIN o : i # j => o[i] # o[j]}

\* InventoryAggregator::flush_pending: the broadcasts for a drain order.
RECURSIVE flush_pending(_, _)
flush_pending(pend, order) ==
    IF order = <<>> THEN <<>>
    ELSE LET d == pend[Head(order)]
             rest == flush_pending(pend, Tail(order))
         IN IF d.delta_quantity = 0 THEN rest
            ELSE <<InventoryUpdate(Head(order), d.delta_quantity, d.source_device)>> \o rest

\* The state after flush_pending for a drain order.
Flushed(order) ==
    /\ broadcasts' = broadcasts \o flush_pending(pending, order)
    /\ pending' = [p \in DOMAIN pending |-> NoPending]
    /\ hhist' = [hhist EXCEPT !.window = <<>>]

\* InventoryAggregator::handle_delta
handle_delta(source_device, delta) ==
    IF BroadcastMode = "immediate"
    THEN /\ broadcasts' = Append(broadcasts,
                                 InventoryUpdate(delta.product_id, delta.delta_quantity,
                                                 source_device))
         /\ UNCHANGED <<pending, hhist>>
    ELSE LET pend == add_pending_delta(pending, source_device, delta)
         IN IF Cardinality({p \in DOMAIN pend : pend[p].present}) >= MAX_PENDING_DELTAS
            THEN /\ \E order \in DrainOrders(pend) :
                       broadcasts' = broadcasts \o flush_pending(pend, order)
                 /\ pending' = [p \in DOMAIN pending |-> NoPending]
                 /\ hhist' = [hhist EXCEPT !.window = <<>>]
            ELSE /\ pending' = pend
                 /\ hhist' = [hhist EXCEPT !.window = Append(@, delta)]
                 /\ UNCHANGED broadcasts

\* InventoryAggregator::run, a command is received: ProcessDelta or Flush.
AggregatorRecv ==
    /\ cmd_rx # <<>>
    /\ cmd_rx' = Tail(cmd_rx)
    /\ IF Head(cmd_rx).cmd = "ProcessDelta"
       THEN handle_delta(Head(cmd_rx).source_device, Head(cmd_rx).delta)
       ELSE \E order \in DrainOrders(pending) : Flushed(order)
    /\ UNCHANGED <<conn, clients, hub_out, delta_rx>>
    /\ UNCHANGED <<electionVars, inboundVars, outboxVars, edgeVars>>

\* InventoryAggregator::run, the coalesce window ticks (coalesced mode only;
\* with nothing pending flush_pending returns at once).
CoalesceTick ==
    /\ BroadcastMode = "coalesced"
    /\ \E p \in DOMAIN pending : pending[p].present
    /\ \E order \in DrainOrders(pending) : Flushed(order)
    /\ UNCHANGED <<conn, clients, hub_out, delta_rx, cmd_rx>>
    /\ UNCHANGED <<electionVars, inboundVars, outboxVars, edgeVars>>

\* The commands an AggregatorHandle sends: process_delta for the deltas of
\* device d1, flush and shutdown.
AggCommands ==
    {AggregatorCommand("ProcessDelta", "d1", msg.delta) : msg \in DeltaMessages}
        \cup {AggregatorCommand("Flush", "", NotADelta),
              AggregatorCommand("Shutdown", "", NotADelta)}

\* AggregatorHandle::process_delta, flush, shutdown: the command is queued.
HandleCommand(cmd) ==
    /\ ~agg.stopped
    /\ agg.sent < MaxCommands
    /\ cmd_rx' = Append(cmd_rx, cmd)
    /\ agg' = [agg EXCEPT !.sent = @ + 1]
    /\ UNCHANGED <<conn, clients, hub_out, delta_rx, pending, broadcasts, hhist>>
    /\ UNCHANGED <<electionVars, inboundVars, outboxVars, exceptAggEdge>>

\* InventoryAggregator::run, a command is received: ProcessDelta is handled,
\* Flush flushes, Shutdown flushes and leaves the loop.
AggregatorRun ==
    /\ ~agg.stopped
    /\ cmd_rx # <<>>
    /\ cmd_rx' = Tail(cmd_rx)
    /\ LET cmd == Head(cmd_rx)
       IN /\ IF cmd.cmd = "ProcessDelta"
             THEN handle_delta(cmd.source_device, cmd.delta)
             ELSE \E order \in DrainOrders(pending) : Flushed(order)
          /\ agg' = [agg EXCEPT
                !.stopped = (cmd.cmd = "Shutdown"),
                !.received = IF cmd.cmd = "ProcessDelta"
                             THEN [@ EXCEPT ![cmd.delta.product_id] =
                                                @ + cmd.delta.delta_quantity]
                             ELSE @]
    /\ UNCHANGED <<conn, clients, hub_out, delta_rx>>
    /\ UNCHANGED <<electionVars, inboundVars, outboxVars, exceptAggEdge>>

-----------------------------------------------------------------------------
(***************************************************************************)
(* Cloud API: sync cursors (db.rs, sync_service.rs).                       *)
(***************************************************************************)
\* The streams a store reports a cursor for, and the primary key of the table.
Streams == {"upload", "download"}
CursorKeys == StoreIds \X Streams

\* The positions a request can carry.
Positions == 0..MaxPosition

\* No row for the key.
NoCursor == [present |-> FALSE, position |-> 0]

\* A SyncCursor of a request.
SyncCursor(stream, position) == [stream |-> stream, position |-> position]

\* Database::update_sync_cursor: INSERT ... ON CONFLICT DO UPDATE SET
\* position = EXCLUDED.position.
update_sync_cursor(cursors, store_id, stream, position) ==
    [cursors EXCEPT ![<<store_id, stream>>] = [present |-> TRUE, position |-> position]]

\* The cursor loop of upload_batch over req.cursors.
RECURSIVE update_cursors(_, _, _)
update_cursors(cursors, store_id, reqs) ==
    IF reqs = <<>> THEN cursors
    ELSE update_cursors(update_sync_cursor(cursors, store_id, Head(reqs).stream,
                                           Head(reqs).position),
                        store_id, Tail(reqs))

\* SyncService::report_cursor for an authenticated store.
ReportCursor(store_id, stream, position) ==
    /\ sync_cursors' = update_sync_cursor(sync_cursors, store_id, stream, position)
    /\ UNCHANGED exceptCloud

\* SyncService::upload_batch, its cursor updates (req.cursors).
UploadBatchCursors(store_id, reqs) ==
    /\ sync_cursors' = update_cursors(sync_cursors, store_id, reqs)
    /\ UNCHANGED exceptCloud

\* SyncService::acknowledge_updates with a new_cursor.
AcknowledgeUpdates(store_id, cursor) ==
    /\ sync_cursors' = update_sync_cursor(sync_cursors, store_id, cursor.stream,
                                          cursor.position)
    /\ UNCHANGED exceptCloud

-----------------------------------------------------------------------------
(***************************************************************************)
(* Discovery scan (discovery.rs).                                          *)
(***************************************************************************)
\* sync_config.device_id() and store_id() of the scanning device.
ScannerId == "d1"
ScannerStore == "store-A"

\* Device ids a HubAnnounce on the network can carry (the scanner's own
\* among them).
AnnounceIds == {"d1", "d2", "d3", "d4"}

\* No entry in the hubs map.
NoHub == [present |-> FALSE, store_id |-> "", election_term |-> 0]

\* A datagram received during the scan: whether magic and version are right,
\* its type byte, whether parse_hub_announce succeeds, and the parsed fields.
Datagram(header_ok, msg_type, parses, device_id, store_id, election_term) ==
    [header_ok |-> header_ok, msg_type |-> msg_type, parses |-> parses,
     device_id |-> device_id, store_id |-> store_id, election_term |-> election_term]

Datagrams ==
    {Datagram(h, t, p, d, st, e) :
        h \in BOOLEAN, t \in {"HubRequest", "HubAnnounce", "HubHeartbeat"},
        p \in BOOLEAN, d \in AnnounceIds, st \in StoreIds, e \in 0..1}

\* discover_hubs: the conditions under which a datagram enters the map.
accepts_announce(dg) ==
    /\ dg.header_ok
    /\ dg.msg_type \in {"HubAnnounce", "HubHeartbeat"}
    /\ dg.parses
    /\ dg.device_id # ScannerId

\* discover_hubs: the request is broadcast and the collection starts.
ScanStart ==
    /\ scan.state = "idle"
    /\ scan' = [scan EXCEPT !.state = "collecting"]
    /\ UNCHANGED exceptDiscovery

\* discover_hubs: one datagram is received before the deadline.
ScanReceive(dg) ==
    /\ scan.state = "collecting"
    /\ scan' = IF accepts_announce(dg)
               THEN [scan EXCEPT !.hubs[dg.device_id] =
                        [present |-> TRUE, store_id |-> dg.store_id,
                         election_term |-> dg.election_term]]
               ELSE scan
    /\ UNCHANGED exceptDiscovery

\* discover_hubs: the deadline passes and the map's values are returned.
ScanTimeout ==
    /\ scan.state = "collecting"
    /\ scan' = [scan EXCEPT !.state = "returned"]
    /\ UNCHANGED exceptDiscovery

-----------------------------------------------------------------------------
(***************************************************************************)
(* Broadcast fan-out of the Hub (hub.rs).  A broadcast message is named by *)
(* its position in the channel: message n is the n-th one sent.            *)
(***************************************************************************)
\* Messages the broadcast channel retains (256 in the code), slots of a
\* connection's outgoing queue (64 in the code), broadcasts and pings sent.
BroadcastCapacity == 1
OutgoingCapacity == 2
MaxBroadcasts == 3
MaxPings == 1

\* The WebSocket connections served at the same time.
FanConns == {1, 2}

\* A connection without a broadcast receiver, a forwarding task holding
\* nothing, and the Ping frame among the outgoing messages.
NotSubscribed == -1
NoMessage == -1
PingFrame == 0

\* HubState::broadcast: the message goes to the channel; with no receiver the
\* send error is dropped and nothing is kept for later subscribers.
Broadcast ==
    /\ fan.tail < MaxBroadcasts
    /\ fan' = [fan EXCEPT !.tail = @ + 1]
    /\ UNCHANGED exceptFanout

\* handle_socket: broadcast_tx.subscribe() gives a receiver that starts at
\* the message sent next.
Subscribe(c) ==
    /\ fan.next[c] = NotSubscribed
    /\ fan' = [fan EXCEPT !.next[c] = fan.tail]
    /\ UNCHANGED exceptFanout

\* (variant) the queue hands out its newest message first.
enqueue_front(queue, msg) == <<msg>> \o queue

\* outgoing_tx.send: the message goes to the back of the connection's queue.
enqueue(queue, msg) == Append(queue, msg)

\* The forwarding task's broadcast_rx.recv(): the next retained message, or
\* Lagged when it was overwritten, after which the receiver stands at the
\* oldest retained message and the loop continues.
ForwardRecv(c) ==
    /\ fan.next[c] # NotSubscribed
    /\ fan.held[c] = NoMessage
    /\ fan.next[c] < fan.tail
    /\ IF fan.next[c] < fan.tail - BroadcastCapacity
       THEN fan' = [fan EXCEPT !.next[c] = fan.tail - BroadcastCapacity]
       ELSE fan' = [fan EXCEPT !.next[c] = @ + 1, !.held[c] = fan.next[c] + 1]
    /\ UNCHANGED exceptFanout

\* The forwarding task's outgoing_tx_clone.send, which waits for a free slot.
ForwardSend(c) ==
    /\ fan.held[c] # NoMessage
    /\ Len(fan.outgoing[c]) < OutgoingCapacity
    /\ fan' = [fan EXCEPT !.outgoing[c] = enqueue(@, fan.held[c]),
                          !.held[c] = NoMessage]
    /\ UNCHANGED exceptFanout

\* The ping task puts a Ping frame into the same queue.
SendPing(c) ==
    /\ fan.next[c] # NotSubscribed
    /\ fan.pings[c] < MaxPings
    /\ Len(fan.outgoing[c]) < OutgoingCapacity
    /\ fan' = [fan EXCEPT !.outgoing[c] = enqueue(@, PingFrame),
                          !.pings[c] = @ + 1]
    /\ UNCHANGED exceptFanout

\* The outgoing task: outgoing_rx.recv() and sender.send on the socket.
OutgoingSend(c) ==
    /\ fan.outgoing[c] # <<>>
    /\ fan' = [fan EXCEPT !.outgoing[c] = Tail(@),
                          !.wire[c] = Append(@, Head(fan.outgoing[c]))]
    /\ UNCHANGED exceptFanout

-----------------------------------------------------------------------------
(***************************************************************************)
(* Handshake of an agent with its server (agent.rs, transport.rs, hub.rs). *)
(* link.up and link.down are the frames in flight to and from the server,  *)
(* link.incoming and link.outgoing the channels between transport and      *)
(* router, which outlive a connection; link.emitted records that the       *)
(* handshaked status event was emitted during the present connection.      *)
(***************************************************************************)
\* The servers behind the configured URL: this repository's HubServer, which
\* reads a Hello before it writes anything, or a server that writes a text
\* frame before it reads.
Peers == {"hub", "greeter"}

\* Frames written to one connection by the poll ticks of a run.
MaxFrames == 3

\* Transport::run: connect_with_timeout succeeds and the state is Connected;
\* the server starts handle_socket for the new socket.
TransportConnect(peer) ==
    /\ link.state = "connecting"
    /\ link' = [link EXCEPT !.state = "connected", !.peer = peer,
                            !.hub = IF peer = "hub" THEN "await_hello" ELSE "greeting",
                            !.up = <<>>, !.down = <<>>,
                            !.emitted = FALSE, !.pinged = FALSE]
    /\ UNCHANGED exceptHandshake

\* A server that speaks first sends a protocol Ping as its first text frame.
PeerSpeaksFirst ==
    /\ link.hub = "greeting"
    /\ link' = [link EXCEPT !.down = Append(@, "Ping"), !.hub = "await_hello"]
    /\ UNCHANGED exceptHandshake

\* connection_loop: the ping interval ticks (its first tick is immediate) and
\* a WebSocket Ping frame is written.
TransportPing ==
    /\ link.state = "connected"
    /\ ~link.pinged
    /\ link.hub # "closed"
    /\ link' = [link EXCEPT !.up = Append(@, "PingFrame"), !.pinged = TRUE]
    /\ UNCHANGED exceptHandshake

\* connection_loop: a message of the outgoing channel is written.
TransportSend ==
    /\ link.state = "connected"
    /\ link.outgoing # <<>>
    /\ link.hub # "closed"
    /\ link' = [link EXCEPT !.up = Append(@, Head(link.outgoing)),
                            !.outgoing = Tail(@)]
    /\ UNCHANGED exceptHandshake

\* connection_loop: a text frame is read, parsed and passed to the router.
TransportRecv ==
    /\ link.state = "connected"
    /\ link.down # <<>>
    /\ Len(link.incoming) < MaxQueue
    /\ link' = [link EXCEPT !.incoming = Append(@, Head(link.down)),
                            !.down = Tail(@)]
    /\ UNCHANGED exceptHandshake

\* message_router: after handling a message, a Hello is sent if the transport
\* is connected and no Welcome was handled so far.
hello_due(is_connected, handshake_done) == is_connected /\ ~handshake_done

\* message_router: one message of incoming_rx is handled (a Welcome completes
\* the handshake and emits the status), then the Hello check runs.
RouterRecv ==
    /\ link.incoming # <<>>
    /\ Len(link.outgoing) < MaxQueue
    /\ LET msg == Head(link.incoming)
           done == link.handshake_done \/ msg = "Welcome"
       IN link' = [link EXCEPT !.incoming = Tail(@),
                               !.handshake_done = done,
                               !.emitted = @ \/ msg = "Welcome",
                               !.outgoing = IF hello_due(link.state = "connected", done)
                                            THEN Append(@, "Hello") ELSE @]
    /\ UNCHANGED exceptHandshake

\* OutboxProcessor::process_batch on a poll tick with pending entries: the
\* transport is connected, so the OutboxBatch is handed to it.
OutboxTick ==
    /\ link.state = "connected"
    /\ Len(link.up) + Len(link.outgoing) < MaxFrames
    /\ link' = [link EXCEPT !.outgoing = Append(@, "OutboxBatch")]
    /\ UNCHANGED exceptHandshake

\* receive_hello: the first frame of the socket is a Hello, answered with a
\* Welcome, or anything else, which closes the connection.
HubReceiveHello ==
    /\ link.hub = "await_hello"
    /\ link.up # <<>>
    /\ IF Head(link.up) = "Hello"
       THEN link' = [link EXCEPT !.up = Tail(@), !.hub = "serving",
                                 !.down = Append(@, "Welcome")]
       ELSE link' = [link EXCEPT !.up = Tail(@), !.hub = "closed"]
    /\ UNCHANGED exceptHandshake

\* receive_hello: no frame within 10 seconds, the connection is closed.
HubHelloTimeout ==
    /\ link.hub = "await_hello"
    /\ link.up = <<>>
    /\ link' = [link EXCEPT !.hub = "closed"]
    /\ UNCHANGED exceptHandshake

\* A served connection breaks.
ServedConnectionBreaks ==
    /\ link.hub = "serving"
    /\ link' = [link EXCEPT !.hub = "closed"]
    /\ UNCHANGED exceptHandshake

\* Transport::run: the connection loop ends and the transport backs off.
ConnectionLost ==
    /\ link.state = "connected"
    /\ link.hub = "closed"
    /\ link' = [link EXCEPT !.state = "backoff", !.hub = "idle",
                            !.up = <<>>, !.down = <<>>]
    /\ UNCHANGED exceptHandshake

\* Transport::run: the backoff sleep is over and the loop connects again.
BackoffElapsed ==
    /\ link.state = "backoff"
    /\ link' = [link EXCEPT !.state = "connecting"]
    /\ UNCHANGED exceptHandshake

-----------------------------------------------------------------------------
(***************************************************************************)
(* message_router of the agent of device RouterDevice (agent.rs).          *)
(* router.ack_rx is the outbox processor's ack channel; router.inventory   *)
(* (the sum of the routed InventoryUpdate quantities per product) and      *)
(* router.heartbeat (the last Heartbeat routed) record what the router was *)
(* given.                                                                  *)
(***************************************************************************)
RouterDevice == 1
MaxRouted == 3

\* SyncMessage::Heartbeat of a PRIMARY, and no heartbeat.
Heartbeat(device_id, election_term) == [device_id |-> device_id, election_term |-> election_term]
NoHeartbeat == Heartbeat(NoDevice, 0)

\* The messages without an arm of their own in the router's match.
OtherMessages ==
    {[kind |-> "InventoryUpdate", update |-> InventoryUpdate(p, q, "d2"), heartbeat |-> NoHeartbeat] :
        p \in ProductIds, q \in {-1, 1}}
    \cup {[kind |-> "Heartbeat", update |-> InventoryUpdate("p1", 0, ""), heartbeat |-> Heartbeat(2, t)] :
        t \in 1..2}

\* message_router, SyncMessage::BatchAck: handed to the outbox processor.
RouteBatchAck(ack) ==
    /\ Len(router.ack_rx) < MaxQueue
    /\ router' = [router EXCEPT !.ack_rx = Append(@, ack)]
    /\ hist' = [hist EXCEPT !.routed = @ + 1]
    /\ UNCHANGED <<seen_term, update_rx, products, inventory_deltas, acks, now>>
    /\ UNCHANGED <<electionVars, outboxVars, hubVars, exceptRouterEdge>>

\* message_router, SyncMessage::Error: last_error is set and an error event
\* emitted.
RouteError(code, text) ==
    /\ router' = [router EXCEPT !.last_error = code \o ": " \o text, !.errors = @ + 1]
    /\ hist' = [hist EXCEPT !.routed = @ + 1]
    /\ UNCHANGED <<seen_term, update_rx, products, inventory_deltas, acks, now>>
    /\ UNCHANGED <<electionVars, outboxVars, hubVars, exceptRouterEdge>>

\* message_router, the `other` arm: the message is logged as unhandled and
\* goes nowhere.
RouteOther(msg) ==
    /\ router' = [router EXCEPT
                    !.inventory = IF msg.kind = "InventoryUpdate"
                                  THEN [@ EXCEPT ![msg.update.product_id] = @ + msg.update.delta_quantity]
                                  ELSE @,
                    !.heartbeat = IF msg.kind = "Heartbeat" THEN msg.heartbeat ELSE @]
    /\ hist' = [hist EXCEPT !.routed = @ + 1]
    /\ UNCHANGED <<seen_term, update_rx, products, inventory_deltas, acks, now>>
    /\ UNCHANGED <<electionVars, outboxVars, hubVars, exceptRouterEdge>>

-----------------------------------------------------------------------------
(***************************************************************************)
(* CloudAuth (cloud_auth.rs).  Time is counted in minutes; an access token *)
(* is named by the number of its issue.                                    *)
(***************************************************************************)
\* REFRESH_MARGIN_SECS (300 s) in minutes.
REFRESH_MARGIN_MIN == 5

\* Minutes the clock runs, tokens the cloud issues, and the lifetimes
\* (expires_in) it gives them.
MaxClock == 9
MaxTokens == 3
Lifetimes == {7, 8}

\* TokenInfo, and the empty cache.
TokenInfo(access_token, expires_at) ==
    [present |-> TRUE, access_token |-> access_token, expires_at |-> expires_at]
NoToken == [present |-> FALSE, access_token |-> 0, expires_at |-> 0]

\* TokenInfo::needs_refresh and TokenInfo::is_expired at time `at`.
needs_refresh(token, at) == at + REFRESH_MARGIN_MIN >= token.expires_at
is_expired(token, at) == at >= token.expires_at

\* A get_token call: the cache and the clock it found, what the refresh and
\* the API-key exchange would answer, and what it did and returned
\* (result 0 stands for Err).
Call(token, at, refresh_ok, exchange_ok, refreshed, exchanged, result) ==
    [called |-> TRUE, token |-> token, now |-> at, refresh_ok |-> refresh_ok,
     exchange_ok |-> exchange_ok, refreshed |-> refreshed, exchanged |-> exchanged,
     result |-> result]
NoCall == [called |-> FALSE, token |-> NoToken, now |-> 0, refresh_ok |-> FALSE,
           exchange_ok |-> FALSE, refreshed |-> FALSE, exchanged |-> FALSE, result |-> 0]

\* A minute passes.
ClockTick ==
    /\ auth.now < MaxClock
    /\ auth' = [auth EXCEPT !.now = @ + 1]
    /\ UNCHANGED exceptAuth

\* CloudAuth::get_token.  refresh_ok and exchange_ok say whether do_refresh
\* and do_authenticate succeed if called; lifetime is the expires_in of a
\* token the cloud issues.  A call whose refresh RPC succeeds does not
\* return (do_refresh then waits for a read guard of the token lock that
\* get_token holds for writing), so it is not among the completed calls.
GetToken(refresh_ok, exchange_ok, lifetime) ==
    /\ auth.issued < MaxTokens
    /\ ~(/\ auth.token.present /\ needs_refresh(auth.token, auth.now)
         /\ ~is_expired(auth.token, auth.now) /\ refresh_ok)
    /\ LET token == auth.token
           at == auth.now
           fresh == TokenInfo(auth.issued + 1, at + lifetime)
           cached == token.present /\ ~needs_refresh(token, at)
           refreshed == token.present /\ ~cached /\ ~is_expired(token, at) /\ refresh_ok
           exchanged == ~cached /\ ~refreshed /\ exchange_ok
       IN auth' = [auth EXCEPT
               !.token = IF refreshed \/ exchanged THEN fresh ELSE @,
               !.issued = IF refreshed \/ exchanged THEN @ + 1 ELSE @,
               !.last = Call(token, at, refresh_ok, exchange_ok, refreshed, exchanged,
                             IF cached THEN token.access_token
                             ELSE IF refreshed \/ exchanged THEN fresh.access_token
                             ELSE 0)]
    /\ UNCHANGED exceptAuth

\* CloudAuth::logout: the cached token is cleared.
Logout ==
    /\ auth.token.present
    /\ auth' = [auth EXCEPT !.token = NoToken]
    /\ UNCHANGED exceptAuth

-----------------------------------------------------------------------------
(***************************************************************************)
(* Reconnect loop of the transport (transport.rs), with the backoff        *)
(* crate's ExponentialBackoff as create_backoff configures it.  Durations  *)
(* are in milliseconds.                                                    *)
(***************************************************************************)
\* TransportConfig defaults: initial_backoff 500 ms, max_backoff 60 s,
\* max_retries 0 (no limit).
initial_backoff == 500
max_backoff == 60000
max_retries == 0

\* create_backoff: multiplier 2.0; the randomization factor is the crate's
\* default 0.5 (..Default::default()), written here as its inverse.
multiplier == 2
randomization_divisor == 2

\* Failed attempts in a row, and the values of the random number drawn by
\* next_backoff (0, 1/2 and 1 of its range).
MaxFailures == 8
Randoms == 0..2

\* (variant) the interval grows without the cap.
increment_current_interval_uncapped(current) == current * multiplier

\* ExponentialBackoff::increment_current_interval: doubled, at most
\* max_interval.
increment_current_interval(current) ==
    IF current * multiplier >= max_backoff THEN max_backoff ELSE current * multiplier

\* ExponentialBackoff::get_random_value_from_interval: a value between
\* current - current/2 and current + current/2, picked by random.
randomized_interval(current, random) ==
    LET delta == current \div randomization_divisor
    IN (current - delta) + (random * delta)

\* Transport::run after a failed connect or an ended connection: the state
\* is Backoff, the retry limit is checked, next_backoff gives the sleep and
\* moves the interval on.
enter_backoff(t, random) ==
    LET count == IF max_retries > 0 THEN t.retry_count + 1 ELSE t.retry_count
    IN IF max_retries > 0 /\ count >= max_retries
       THEN [t EXCEPT !.state = "disconnected", !.retry_count = count]
       ELSE [t EXCEPT !.state = "backoff", !.retry_count = count,
                      !.delays = Append(@, randomized_interval(t.current_interval, random)),
                      !.current_interval = increment_current_interval(@)]

\* Transport::run: one connect attempt.  Success: Connected, backoff.reset()
\* and retry_count = 0; failure: backoff.
RunConnect(ok, random) ==
    /\ transport.state = "connecting"
    /\ ok \/ Len(transport.delays) < MaxFailures
    /\ transport' = IF ok
                    THEN [transport EXCEPT !.state = "connected",
                                           !.current_interval = initial_backoff,
                                           !.retry_count = 0, !.delays = <<>>]
                    ELSE enter_backoff(transport, random)
    /\ UNCHANGED exceptTransport

\* Transport::run: connection_loop returns, the transport backs off.
RunConnectionEnds(random) ==
    /\ transport.state = "connected"
    /\ transport' = enter_backoff(transport, random)
    /\ UNCHANGED exceptTransport

\* Transport::run: the sleep of the backoff select is over; the state is
\* Reconnecting and the loop goes round.
RunBackoffOver ==
    /\ transport.state = "backoff"
    /\ transport' = [transport EXCEPT !.state = "reconnecting"]
    /\ UNCHANGED exceptTransport

\* TransportHandle::shutdown: one () is sent on the shutdown channel. The
\* agent calls it once, whatever the transport is doing.
Shutdown ==
    /\ ~transport.requested
    /\ transport' = [transport EXCEPT !.requested = TRUE, !.shutdown_rx = 1]
    /\ UNCHANGED exceptTransport

\* Transport::run, top of the loop: try_recv on the shutdown channel; a
\* signal ends the loop (Disconnected), otherwise the state is Connecting.
RunLoopTop ==
    /\ transport.state \in {"starting", "reconnecting"}
    /\ transport' = IF transport.shutdown_rx > 0
                    THEN [transport EXCEPT !.state = "disconnected", !.shutdown_rx = 0]
                    ELSE [transport EXCEPT !.state = "connecting"]
    /\ UNCHANGED exceptTransport

\* Transport::connection_loop, shutdown branch of the select: the signal is
\* received, Close is sent and the loop returns Ok(()); run() goes on to the
\* backoff as after any other end of the connection.
RunConnectionShutdown(random) ==
    /\ transport.state = "connected"
    /\ transport.shutdown_rx > 0
    /\ transport' = enter_backoff([transport EXCEPT !.shutdown_rx = 0], random)
    /\ UNCHANGED exceptTransport

\* Transport::run, shutdown branch of the backoff select: the loop ends
\* Disconnected.
RunShutdown ==
    /\ transport.state = "backoff"
    /\ transport.shutdown_rx > 0
    /\ transport' = [transport EXCEPT !.state = "disconnected", !.shutdown_rx = 0]
    /\ UNCHANGED exceptTransport

-----------------------------------------------------------------------------
(***************************************************************************)
(* Concurrent get_token calls on one CloudAuth (cloud_auth.rs).  The token *)
(* is behind a tokio RwLock; a read guard is granted while no write guard  *)
(* is held, a write guard while no guard is held.  The gRPC calls run      *)
(* under the endpoint's 30 s timeout, so each of them returns.             *)
(***************************************************************************)
Callers == {1, 2}
NoCaller == 0
MaxCalls == 3

\* A minute passes.
LockClockTick ==
    /\ token_lock.now < MaxClock
    /\ token_lock' = [token_lock EXCEPT !.now = @ + 1]
    /\ UNCHANGED exceptLock

\* A task calls get_token and asks for the read guard.
GetTokenCall(c) ==
    /\ token_lock.pc[c] = "idle"
    /\ token_lock.calls < MaxCalls
    /\ token_lock' = [token_lock EXCEPT !.pc[c] = "read", !.calls = @ + 1]
    /\ UNCHANGED exceptLock

\* self.token.read().await completes: no write guard is held.  In get_token
\* the cached token is returned if it needs no refresh, else the guard is
\* dropped and the write guard is asked for; in do_refresh the store and
\* tenant ids are read, the refreshed token is stored by get_token, the
\* write guard is dropped and the call returns.
TokenRead(c, lifetime) ==
    /\ token_lock.pc[c] \in {"read", "refresh_read"}
    /\ token_lock.writer = NoCaller
    /\ token_lock' =
          IF token_lock.pc[c] = "read"
          THEN IF token_lock.token.present /\ ~needs_refresh(token_lock.token, token_lock.now)
               THEN [token_lock EXCEPT !.pc[c] = "idle"]
               ELSE [token_lock EXCEPT !.pc[c] = "write"]
          ELSE [token_lock EXCEPT
                  !.token = TokenInfo(token_lock.issued + 1, token_lock.now + lifetime),
                  !.issued = @ + 1, !.pc[c] = "idle"]
    /\ UNCHANGED exceptLock

\* self.token.write().await completes and the token is checked again: fresh
\* => return it; inside the margin => do_refresh; expired or absent =>
\* do_authenticate.  The write guard lives until get_token returns.
TokenWrite(c) ==
    /\ token_lock.pc[c] = "write"
    /\ token_lock.writer = NoCaller
    /\ token_lock' =
          IF token_lock.token.present /\ ~needs_refresh(token_lock.token, token_lock.now)
          THEN [token_lock EXCEPT !.pc[c] = "idle"]
          ELSE IF token_lock.token.present /\ ~is_expired(token_lock.token, token_lock.now)
          THEN [token_lock EXCEPT !.writer = c, !.pc[c] = "refresh"]
          ELSE [token_lock EXCEPT !.writer = c, !.pc[c] = "authenticate"]
    /\ UNCHANGED exceptLock

\* do_refresh: the refresh_token RPC answers.  Err => the ? returns it and
\* get_token goes on to do_authenticate; Ok => do_refresh asks for a read
\* guard of self.token.
DoRefresh(c, ok) ==
    /\ token_lock.pc[c] = "refresh"
    /\ token_lock' = [token_lock EXCEPT
                        !.pc[c] = IF ok THEN "refresh_read" ELSE "authenticate"]
    /\ UNCHANGED exceptLock

\* do_authenticate: the exchange_token RPC answers; get_token stores the new
\* token or returns the error, and drops the write guard.
DoAuthenticate(c, ok, lifetime) ==
    /\ token_lock.pc[c] = "authenticate"
    /\ token_lock' = [token_lock EXCEPT
                        !.token = IF ok THEN TokenInfo(token_lock.issued + 1,
                                                      token_lock.now + lifetime)
                                  ELSE @,
                        !.issued = IF ok THEN @ + 1 ELSE @,
                        !.writer = NoCaller, !.pc[c] = "idle"]
    /\ UNCHANGED exceptLock

\* The products table at the start: p1 in stock, no row for p2.
InitialProducts ==
    [p \in ProductIds |-> IF p = "p1" THEN Row("A", TRUE, 0, 10, 1) ELSE Absent]

Init ==
    /\ role = [d \in AllDevices |-> "secondary"]
    /\ term = [d \in AllDevices |-> 0]
    /\ primary_id = [d \in AllDevices |-> NoDevice]
    /\ last_heartbeat = [d \in AllDevices |-> "none"]
    /\ epc = [d \in AllDevices |-> "init"]
    /\ heartbeats = {}
    /\ seen_term = 0
    /\ update_rx = <<>>
    /\ products = InitialProducts
    /\ inventory_deltas = <<>>
    /\ acks = <<>>
    /\ now = 1
    /\ hist = [routed |-> 0, last |-> EntityUpdate("", "", "", NoData, 0),
               pre |-> InitialProducts, repeated |-> FALSE,
               once |-> [products |-> InitialProducts, inventory_deltas |-> <<>>]]
    /\ sync_outbox = <<>>
    /\ sales = [s \in SaleIds |-> "none"]
    /\ fpc = [s \in SaleIds |-> "idle"]
    /\ connected = FALSE
    /\ batch_seq = 0
    /\ sent = <<>>
    /\ ohist = [n |-> 0, ack |-> BatchAck({}, <<>>)]
    /\ conn = [c \in ConnIds |-> [state |-> "idle", device_id |-> "", store_id |-> ""]]
    /\ clients = [d \in HubClients |-> NoConn]
    /\ hub_out = [c \in ConnIds |-> <<>>]
    /\ delta_rx = <<>>
    /\ cmd_rx = <<>>
    /\ pending = [p \in ProductIds |-> NoPending]
    /\ broadcasts = <<>>
    /\ hhist = [forwarded |-> {}, received |-> <<>>, processed |-> <<>>, window |-> <<>>]
    /\ sync_cursors = [k \in CursorKeys |-> NoCursor]
    /\ scan = [state |-> "idle", hubs |-> [d \in AnnounceIds |-> NoHub]]
    /\ fan = [tail |-> 0, next |-> [c \in FanConns |-> NotSubscribed], held |-> [c \in FanConns |-> NoMessage],
              outgoing |-> [c \in FanConns |-> <<>>], wire |-> [c \in FanConns |-> <<>>],
              pings |-> [c \in FanConns |-> 0]]
    /\ link = [state |-> "connecting", peer |-> "hub", hub |-> "idle", up |-> <<>>, down |-> <<>>,
               incoming |-> <<>>, outgoing |-> <<>>, handshake_done |-> FALSE,
               emitted |-> FALSE, pinged |-> FALSE]
    /\ router = [ack_rx |-> <<>>, last_error |-> "", errors |-> 0,
                 inventory |-> [p \in ProductIds |-> 0], heartbeat |-> NoHeartbeat]
    /\ auth = [now |-> 0, token |-> NoToken, issued |-> 0, last |-> NoCall]
    /\ transport = [state |-> "starting", current_interval |-> initial_backoff,
                    retry_count |-> 0, delays |-> <<>>, shutdown_rx |-> 0,
                    requested |-> FALSE]
    /\ heard = [device |-> NoDevice, device_id |-> NoDevice, election_term |-> 0,
                role |-> "", term |-> 0, primary_id |-> NoDevice]
    /\ scanned = [device |-> NoDevice, answered |-> {}, hub_id |-> NoDevice,
                  challenged |-> FALSE, hub_term |-> 0, own_term |-> 0]
    /\ token_lock = [now |-> 0, token |-> NoToken, issued |-> 0, writer |-> NoCaller,
                    pc |-> [c \in Callers |-> "idle"], calls |-> 0]
    /\ agg = [stopped |-> FALSE, sent |-> 0, received |-> [p \in ProductIds |-> 0]]
    /\ applier = [pc |-> "idle", update |-> EntityUpdate("", "", "", NoData, 0),
                 current |-> Absent, writes |-> 0]

-----------------------------------------------------------------------------
\* The election services of the store: discovery, elections, heartbeats and
\* heartbeat timeouts, interleaved in any order.
NextAuto ==
    \/ \E d \in Devices : Startup(d)
    \/ \E d \in Devices : ElectionTimeout(d)
    \/ \E d \in Devices : SendHeartbeat(d)
    \/ \E d \in Devices : RecordHeartbeat(d)
    \/ \E d \in Devices : HeartbeatExpire(d)
    \/ \E d \in Devices : CheckHeartbeatTimeout(d)

SpecAuto == Init /\ [][NextAuto]_vars

\* Device 1 starts alone in AUTO mode; the other AUTO devices join the
\* network only after device 1 has finished its first election.
NextAlone ==
    \/ Startup(1)
    \/ epc[1] = "loop" /\ \E d \in Devices \ {1} : Startup(d)
    \/ \E d \in Devices : ElectionTimeout(d)
    \/ \E d \in Devices : SendHeartbeat(d)
    \/ \E d \in Devices : RecordHeartbeat(d)
    \/ \E d \in Devices : HeartbeatExpire(d)
    \/ \E d \in Devices : CheckHeartbeatTimeout(d)

\* The election task is scheduled and its sleep ends.
SpecAlone ==
    /\ Init /\ [][NextAlone]_vars
    /\ WF_vars(Startup(1)) /\ WF_vars(ElectionTimeout(1))

\* One device of every mode (1 auto, 4 primary, 5 secondary, 6 offline) under
\* the commands of the ElectionHandle and the heartbeat timer; the forced
\* devices hear the heartbeats of device 1.
ModeDevices == {1} \cup ForcedDevices

NextModes ==
    \/ \E d \in ModeDevices : Startup(d)
    \/ \E d \in ModeDevices : ElectionTimeout(d)
    \/ SendHeartbeat(1)
    \/ \E d \in ForcedDevices : RecordHeartbeat(d)
    \/ \E d \in ModeDevices : HeartbeatExpire(d)
    \/ \E d \in ModeDevices : CheckHeartbeatTimeout(d)
    \/ \E d \in ForcedDevices : ForcePrimary(d)
    \/ \E d \in ModeDevices : ForceSecondary(d)
    \/ \E d \in ModeDevices : TriggerElection(d)

SpecModes == Init /\ [][NextModes]_vars

\* A SECONDARY's router and inbound applier, fed with the catalog updates of
\* the Hub it is connected to.
NextProduct ==
    \/ /\ hist.routed < MaxMessages
       /\ \E u \in ProductUpdates \cup OtherUpdates : RouteEntityUpdate(u, seen_term)
    \/ ProcessUpdate

SpecProduct == Init /\ [][NextProduct]_vars

\* The same, fed with inventory deltas and a few catalog updates among them.
NextInventory ==
    \/ /\ hist.routed < MaxDeltas
       /\ \E u \in DeltaUpdates \cup CatalogUpdates : RouteEntityUpdate(u, seen_term)
    \/ ProcessUpdate

SpecInventory == Init /\ [][NextInventory]_vars

\* The same, fed with Welcome and EntityUpdate messages of Hubs of any term
\* (the current Hub, or an old PRIMARY that came back).
NextFencing ==
    \/ /\ hist.routed < MaxMessages
       /\ \E t \in 0..MaxTerm : RouteWelcome(t)
    \/ /\ hist.routed < MaxMessages
       /\ \E u \in CatalogUpdates, t \in 0..MaxTerm : RouteEntityUpdate(u, t)
    \/ ProcessUpdate

SpecFencing == Init /\ [][NextFencing]_vars

\* The point of sale: sales are created and finalized.
NextFinalize ==
    \/ \E s \in SaleIds : CreateSale(s)
    \/ \E s \in SaleIds : FinalizeSaleUpdate(s)
    \/ \E s \in SaleIds : FinalizeSaleQueue(s)
    \/ \E s \in SaleIds : FinalizeSaleAbort(s)

SpecFinalize == Init /\ [][NextFinalize]_vars

\* The outbox pipeline: rows are queued, batches are sent while the transport
\* is connected, and the Hub's acknowledgements are handled.
NextOutbox ==
    \/ QueueForSync(1)
    \/ Connect
    \/ Disconnect
    \/ batch_seq < MaxBatches /\ ProcessBatch
    \/ /\ ohist.n < Len(sent)
       /\ \E ack \in BatchAcks(sent[ohist.n + 1]) : HandleBatchAck(ack)

SpecOutbox == Init /\ [][NextOutbox]_vars

\* The outbox over several poll ticks: the interval ticks whether or not the
\* previous batch has been acknowledged.
NextBatching ==
    \/ QueueForSync(1)
    \/ Connect
    \/ batch_seq < MaxTicks /\ ProcessBatch
    \/ /\ ohist.n < Len(sent)
       /\ \E ack \in CompleteAcks(sent[ohist.n + 1]) : HandleBatchAck(ack)

SpecBatching == Init /\ [][NextBatching]_vars

\* The outbox against a Hub that keeps rejecting: up to MaxInFlight batches
\* wait for their BatchAck while the interval keeps ticking.
NextRetry ==
    \/ Len(sync_outbox) < MaxRetryRows /\ QueueForSync(1)
    \/ Connect
    \/ /\ batch_seq < MaxPolls
       /\ Len(sent) - ohist.n < MaxInFlight
       /\ ProcessBatch
    \/ /\ ohist.n < Len(sent)
       /\ \E ack \in CompleteAcks(sent[ohist.n + 1]) : HandleBatchAck(ack)

SpecRetry == Init /\ [][NextRetry]_vars

\* The upload path of the Hub: a SECONDARY connects and delivers outbox
\* batches; the delta processor and the aggregator keep running.
NextUpload ==
    \/ WsConnect(1)
    \/ HandleHello(1, "d1", HubStore, TRUE)
    \/ /\ Len(hhist.received) < MaxUploads
       /\ \E b \in UploadBatches : ClientMessage(1, b)
    \/ DeltaProcessorStep
    \/ AggregatorRecv
    \/ CoalesceTick

SpecUpload ==
    /\ Init /\ [][NextUpload]_vars
    /\ WF_vars(DeltaProcessorStep) /\ WF_vars(AggregatorRecv) /\ WF_vars(CoalesceTick)

\* The Hub's WebSocket server: connections come, shake hands, send messages
\* and end, each in its own handle_socket task.
NextHub ==
    \/ \E c \in ConnIds : WsConnect(c)
    \/ \E c \in ConnIds : HelloFails(c)
    \/ \E c \in ConnIds, d \in HubClients, st \in StoreIds, w \in BOOLEAN :
          HandleHello(c, d, st, w)
    \/ /\ Len(hhist.received) < MaxUploads
       /\ \E c \in ConnIds : ClientMessage(c, InventoryDeltaMsg(InventoryDelta("p1", -1)))
    \/ \E c \in ConnIds : ConnectionEnds(c)

SpecHub == Init /\ [][NextHub]_vars

\* The aggregator in coalesced mode: a client streams InventoryDelta
\* messages and the coalesce window ticks at any time.
NextAggregator ==
    \/ WsConnect(1)
    \/ HandleHello(1, "d1", HubStore, TRUE)
    \/ /\ Len(hhist.received) < MaxDeltaMsgs
       /\ \E msg \in DeltaMessages : ClientMessage(1, msg)
    \/ DeltaProcessorStep
    \/ AggregatorRecv
    \/ CoalesceTick

SpecAggregator == Init /\ [][NextAggregator]_vars

\* The cloud API serving cursor reports and cursor updates of the stores.
NextCursor ==
    \/ \E st \in StoreIds, sm \in Streams, pos \in Positions : ReportCursor(st, sm, pos)
    \/ \E st \in StoreIds, sm \in Streams, pos \in Positions :
          UploadBatchCursors(st, <<SyncCursor(sm, pos)>>)
    \/ \E st \in StoreIds, sm \in Streams, pos \in Positions :
          AcknowledgeUpdates(st, SyncCursor(sm, pos))

SpecCursor == Init /\ [][NextCursor]_vars

\* One discovery scan with any datagrams arriving during it.
NextDiscovery ==
    \/ ScanStart
    \/ \E dg \in Datagrams : ScanReceive(dg)
    \/ ScanTimeout

SpecDiscovery == Init /\ [][NextDiscovery]_vars

\* The Hub broadcasting to its connections.
NextFanout ==
    \/ Broadcast
    \/ \E c \in FanConns : Subscribe(c)
    \/ \E c \in FanConns : ForwardRecv(c)
    \/ \E c \in FanConns : ForwardSend(c)
    \/ \E c \in FanConns : SendPing(c)
    \/ \E c \in FanConns : OutgoingSend(c)

SpecFanout == Init /\ [][NextFanout]_vars

\* An agent connecting to its server again and again; nothing is held back
\* for ever.
NextHandshake ==
    \/ \E peer \in Peers : TransportConnect(peer)
    \/ PeerSpeaksFirst
    \/ TransportPing
    \/ TransportSend
    \/ TransportRecv
    \/ RouterRecv
    \/ HubReceiveHello
    \/ HubHelloTimeout
    \/ ServedConnectionBreaks
    \/ ConnectionLost
    \/ BackoffElapsed

SpecHandshake ==
    /\ Init /\ [][NextHandshake]_vars
    /\ WF_vars(\E peer \in Peers : TransportConnect(peer))
    /\ WF_vars(PeerSpeaksFirst) /\ WF_vars(TransportSend) /\ WF_vars(TransportRecv)
    /\ WF_vars(RouterRecv) /\ WF_vars(HubReceiveHello) /\ WF_vars(HubHelloTimeout)
    /\ WF_vars(ConnectionLost) /\ WF_vars(BackoffElapsed)

\* The router of device 1 fed with every kind of message, and the inbound
\* handler behind it.
NextRouter ==
    \/ /\ hist.routed < MaxRouted
       /\ RouteWelcome(1)
    \/ /\ hist.routed < MaxRouted
       /\ RouteBatchAck(BatchAck({"s1"}, <<>>))
    \/ /\ hist.routed < MaxRouted
       /\ \E u \in DeltaUpdates : RouteEntityUpdate(u, seen_term)
    \/ /\ hist.routed < MaxRouted
       /\ RouteError("STORE_MISMATCH", "wrong store")
    \/ /\ hist.routed < MaxRouted
       /\ \E msg \in OtherMessages : RouteOther(msg)
    \/ ProcessUpdate

SpecRouter == Init /\ [][NextRouter]_vars

\* One CloudAuth used over time, with the cloud answering or failing.
NextAuth ==
    \/ ClockTick
    \/ \E r, x \in BOOLEAN, l \in Lifetimes : GetToken(r, x, l)
    \/ Logout

SpecAuth == Init /\ [][NextAuth]_vars

\* A transport whose connect attempts fail or succeed in any order.
NextTransport ==
    \/ \E ok \in BOOLEAN, r \in Randoms : RunConnect(ok, r)
    \/ \E r \in Randoms : RunConnectionEnds(r)
    \/ RunBackoffOver
    \/ RunLoopTop

SpecTransport == Init /\ [][NextTransport]_vars

\* The same transport with shutdown() called at any moment, and the
\* transport task scheduled: every step of run() that is ready is taken; how
\* long a connection lasts and when shutdown() is called are left open.
NextShutdown ==
    \/ NextTransport
    \/ Shutdown
    \/ \E r \in Randoms : RunConnectionShutdown(r)
    \/ RunShutdown

SpecShutdown ==
    /\ Init /\ [][NextShutdown]_vars
    /\ WF_vars(RunLoopTop) /\ WF_vars(\E ok \in BOOLEAN, r \in Randoms : RunConnect(ok, r))
    /\ WF_vars(RunBackoffOver) /\ WF_vars(RunShutdown)
    /\ WF_vars(\E r \in Randoms : RunConnectionShutdown(r))

\* The same with every election sleep coming to its end.
SpecAutoFair == SpecAuto /\ \A d \in Devices : WF_vars(ElectionTimeout(d))

\* The election services of the store, with the handled heartbeats recorded.
NextHeartbeat ==
    \/ \E d \in Devices : Startup(d)
    \/ \E d \in Devices : ElectionTimeout(d)
    \/ \E d \in Devices : SendHeartbeat(d)
    \/ \E d \in Devices, p \in Devices, t \in 0..MaxTerm :
          HandleHeartbeat(d, [device_id |-> p, election_term |-> t])
    \/ \E d \in Devices : HeartbeatExpire(d)
    \/ \E d \in Devices : CheckHeartbeatTimeout(d)

SpecHeartbeat == Init /\ [][NextHeartbeat]_vars

\* The election services of the store with the startup scans recorded.
NextChallenge ==
    \/ \E d \in Devices, answered \in SUBSET AllDevices : StartupScan(d, answered)
    \/ \E d \in Devices : ElectionTimeout(d)
    \/ \E d \in Devices : SendHeartbeat(d)
    \/ \E d \in Devices : RecordHeartbeat(d)
    \/ \E d \in Devices : HeartbeatExpire(d)
    \/ \E d \in Devices : CheckHeartbeatTimeout(d)

SpecChallenge == Init /\ [][NextChallenge]_vars

\* Tasks calling get_token of one CloudAuth concurrently while time passes;
\* every task is scheduled and the lock is granted in turn.
NextTokenLock ==
    \/ LockClockTick
    \/ \E c \in Callers : GetTokenCall(c)
    \/ \E c \in Callers, l \in Lifetimes : TokenRead(c, l)
    \/ \E c \in Callers : TokenWrite(c)
    \/ \E c \in Callers, ok \in BOOLEAN : DoRefresh(c, ok)
    \/ \E c \in Callers, ok \in BOOLEAN, l \in Lifetimes : DoAuthenticate(c, ok, l)

SpecTokenLock ==
    /\ Init /\ [][NextTokenLock]_vars
    /\ \A c \in Callers :
          /\ SF_vars(\E l \in Lifetimes : TokenRead(c, l))
          /\ SF_vars(TokenWrite(c))
          /\ WF_vars(\E ok \in BOOLEAN : DoRefresh(c, ok))
          /\ WF_vars(\E ok \in BOOLEAN, l \in Lifetimes : DoAuthenticate(c, ok, l))

\* The outbox on a transport that stays connected, against a Hub that
\* accepts or rejects whole batches; each batch is answered before the next
\* poll tick, and the poll timer and the ack handler keep running.
NextStarve ==
    \/ QueueForSync(1)
    \/ Connect
    \/ /\ batch_seq < MaxPolls
       /\ ohist.n = Len(sent)
       /\ ProcessBatch
    \/ /\ ohist.n < Len(sent)
       /\ \E ack \in WholeBatchAcks(sent[ohist.n + 1]) : HandleBatchAck(ack)

SpecStarve ==
    /\ Init /\ [][NextStarve]_vars
    /\ WF_vars(Connect)
    /\ WF_vars(batch_seq < MaxPolls /\ ohist.n = Len(sent) /\ ProcessBatch)
    /\ WF_vars(/\ ohist.n < Len(sent)
               /\ \E ack \in WholeBatchAcks(sent[ohist.n + 1]) : HandleBatchAck(ack))

\* One aggregator from its start to its shutdown: commands are sent through
\* the handle, the run loop takes them, the window ticks while it runs.
NextConserve ==
    \/ \E cmd \in AggCommands : HandleCommand(cmd)
    \/ AggregatorRun
    \/ ~agg.stopped /\ CoalesceTick

SpecConserve == Init /\ [][NextConserve]_vars

\* The inbound applier working on product updates while the POS writes to
\* the same products table through the same pool.
NextInterleave ==
    \/ \E u \in ProductUpdates : ApplierCheck(u)
    \/ ApplierWrite
    \/ \E id \in ProductIds, kind \in {"update", "update_stock", "soft_delete"} :
          LocalWrite(id, kind)

SpecInterleave == Init /\ [][NextInterleave]_vars

\* The agent's connections with the outbox processor polling next to the
\* router.
NextSession ==
    \/ NextHandshake
    \/ OutboxTick

SpecSession == Init /\ [][NextSession]_vars

-----------------------------------------------------------------------------
\* C1: for every term T at most one device holds role = PRIMARY with term = T.
OnePrimaryPerTerm ==
    \A a, b \in Devices :
        (role[a] = "primary" /\ role[b] = "primary" /\ term[a] = term[b]) => a = b

\* C3: the election term held by a device never decreases in any step.
TermNeverDecreases == [][\A d \in Devices : term'[d] >= term[d]]_vars

-----------------------------------------------------------------------------
\* C2: once the SECONDARY has observed term T, no Hub message produced under
\* a term lower than T is handed to the applier.
StaleTermNeverRouted ==
    [][Len(update_rx') > Len(update_rx)
          => update_rx'[Len(update_rx')].term >= seen_term]_vars

-----------------------------------------------------------------------------
\* How often the applier has acked entity `e` with success.
Applied(e) == Cardinality({i \in 1..Len(acks) : acks[i].entity_id = e /\ acks[i].success})

RECURSIVE SumDeltas(_)
SumDeltas(ids) ==
    IF ids = {} THEN 0
    ELSE LET e == CHOOSE x \in ids : TRUE
         IN DeltaData(e).delta + SumDeltas(ids \ {e})

\* The deltas against product p that have been applied at least once.
DeltasApplied(p) == {e \in DeltaIds : Applied(e) >= 1 /\ DeltaData(e).id = p}

\* C4: applying the same inventory delta (same entry ID) again leaves
\* current_stock as it was after the first application.
SameDeltaTwiceIsNoop ==
    (hist.repeated /\ hist.last.entity_type = "inventory_delta")
        => \A p \in ProductIds :
              products[p].current_stock = hist.once.products[p].current_stock

\* C5: deltas with distinct IDs against p1, applied in any arrival order,
\* change its stock by their sum.
DistinctDeltasSumUp ==
    (\A e \in DeltaIds : Applied(e) <= 1)
        => products["p1"].current_stock - InitialProducts["p1"].current_stock
              = SumDeltas(DeltasApplied("p1"))

\* C5 witness: three deltas against p1 applied once each, the last ID first.
ThreeDeltasOutOfOrder ==
    /\ Len(acks) = 3
    /\ acks[1].entity_id = "e3"
    /\ acks[2].entity_id = "e1"
    /\ acks[3].entity_id = "e2"
    /\ \A i \in 1..3 : acks[i].success
    /\ products["p1"].current_stock = 12

-----------------------------------------------------------------------------
\* The update processed last was a product upsert acked as applied.
LastUpsertApplied ==
    /\ acks # <<>>
    /\ hist.last.entity_type = "product"
    /\ hist.last.operation = "upsert"
    /\ acks[Len(acks)].success

\* C6: after a product upsert is applied, the local sync_version of the
\* entity is at least the incoming version.
UpsertReachesVersion ==
    LastUpsertApplied
        => /\ products[hist.last.entity_id].present
           /\ products[hist.last.entity_id].sync_version >= hist.last.version

\* C7: processing the same update of a version-guarded entity a second time
\* leaves the database as the first processing left it.
SameUpdateTwiceIsNoop ==
    (hist.repeated /\ hist.last.entity_type \in {"product", "tax_rate", "category", "user"})
        => /\ products = hist.once.products
           /\ inventory_deltas = hist.once.inventory_deltas

\* C7 witness: a delete that was applied and then processed again.
DeleteProcessedTwice ==
    /\ hist.repeated
    /\ hist.last.entity_type = "product"
    /\ hist.last.operation = "delete"
    /\ products[hist.last.entity_id].present
    /\ ~products[hist.last.entity_id].is_active
    /\ products[hist.last.entity_id].sync_version = hist.last.version

-----------------------------------------------------------------------------
\* The SALE outbox rows of sale s.
SaleRows(s) ==
    {i \in DOMAIN sync_outbox :
        sync_outbox[i].entity_type = "SALE" /\ sync_outbox[i].entity_id = s}

\* C9: whenever no finalize_sale is running for a sale, the sale is finalized
\* in the database if and only if its SALE outbox row exists.
FinalizedIffQueued ==
    \A s \in SaleIds :
        fpc[s] = "idle" => (sales[s] = "completed" <=> SaleRows(s) # {})

-----------------------------------------------------------------------------
\* C8: every outbox row with synced_at set has attempts >= 1 and was part of
\* an OutboxBatch handed to the transport.
SyncedWasAttempted ==
    \A i \in DOMAIN sync_outbox :
        sync_outbox[i].synced_at # "NULL"
            => sync_outbox[i].attempts >= 1 /\ sync_outbox[i].id \in SentIds

-----------------------------------------------------------------------------
\* The row is pending, and the BatchAck lists it once as failed and not as acked.
FailedOnce(row, ack) ==
    /\ row.synced_at = "NULL"
    /\ row.id \notin ack.acked_ids
    /\ Cardinality({k \in DOMAIN ack.failed_ids : ack.failed_ids[k].id = row.id}) = 1

\* The failed entry of the BatchAck for the row.
FailureOf(row, ack) ==
    ack.failed_ids[CHOOSE k \in DOMAIN ack.failed_ids : ack.failed_ids[k].id = row.id]

\* What handling a BatchAck does to the rows, apart from last_error.
AckOutcome(before, after, ack) ==
    /\ DOMAIN after = DOMAIN before
    /\ \A i \in DOMAIN before :
          /\ before[i].id \in ack.acked_ids => after[i].synced_at = "set"
          /\ before[i].id \notin ack.acked_ids => after[i].synced_at = before[i].synced_at
          /\ FailedOnce(before[i], ack) => after[i].attempts = before[i].attempts + 1
          /\ (\A k \in DOMAIN ack.failed_ids : ack.failed_ids[k].id # before[i].id)
                => /\ after[i].attempts = before[i].attempts
                   /\ after[i].last_error = before[i].last_error

\* C10 (as stated): acked rows get synced_at; a failed row has attempts + 1,
\* last_error equal to the error reported for it, synced_at still null; the
\* other rows are not affected.
FailedRowKeepsReportedError ==
    [][ohist'.n = ohist.n + 1
          => /\ AckOutcome(sync_outbox, sync_outbox', ohist'.ack)
             /\ \A i \in DOMAIN sync_outbox :
                   FailedOnce(sync_outbox[i], ohist'.ack)
                       => sync_outbox'[i].last_error
                             = FailureOf(sync_outbox[i], ohist'.ack).error]_vars

\* C10 (amended): the same, with last_error set to the message
\* "Sync failed: <error> (retryable: <flag>)" built from the failed entry.
FailedRowKeepsFormattedError ==
    [][ohist'.n = ohist.n + 1
          => /\ AckOutcome(sync_outbox, sync_outbox', ohist'.ack)
             /\ \A i \in DOMAIN sync_outbox :
                   FailedOnce(sync_outbox[i], ohist'.ack)
                       => sync_outbox'[i].last_error
                             = error_msg(FailureOf(sync_outbox[i], ohist'.ack))]_vars

\* C10 witness: rows 1..3 sent, BatchAck{acked [1,3], failed [2: FK_VIOLATION,
\* not retryable]} handled: 1 and 3 synced, 2 pending with one attempt.
PartialFailureHandled ==
    /\ Len(sync_outbox) = 3
    /\ ohist.ack = BatchAck({1, 3}, <<FailedEntry(2, "FK_VIOLATION", FALSE)>>)
    /\ sync_outbox[1].synced_at = "set"
    /\ sync_outbox[3].synced_at = "set"
    /\ sync_outbox[2].synced_at = "NULL"
    /\ sync_outbox[2].attempts = 1
    /\ sync_outbox[2].last_error = "Sync failed: FK_VIOLATION (retryable: false)"
    /\ \E k \in DOMAIN get_pending(sync_outbox, BatchSize) :
          get_pending(sync_outbox, BatchSize)[k].id = 2

-----------------------------------------------------------------------------
\* BatchAck messages the Hub has sent on connection c.
AcksSent(c) == Cardinality({k \in DOMAIN hub_out[c] : hub_out[c][k].kind = "BatchAck"})

\* C11: every OutboxBatch delivered to the Hub is eventually answered with a
\* BatchAck on the connection it came from.
BatchEventuallyAcked ==
    \A n \in 1..MaxUploads :
        (Len(hhist.received) >= n) ~> (AcksSent(1) >= n)

\* What an outbox entry contributes to the stock of product p.
EntryDelta(e, p) ==
    IF e.entity_type = "InventoryDelta" /\ e.payload.parses /\ e.payload.product_id = p
    THEN e.payload.delta_quantity
    ELSE 0

\* The contributions to p of a set of outbox entries.
RECURSIVE EntriesTotal(_, _)
EntriesTotal(es, p) ==
    IF es = {} THEN 0
    ELSE LET e == CHOOSE x \in es : TRUE
         IN EntryDelta(e, p) + EntriesTotal(es \ {e}, p)

\* The quantity the aggregator has broadcast for p.
RECURSIVE BroadcastTotal(_, _)
BroadcastTotal(bs, p) ==
    IF bs = <<>> THEN 0
    ELSE (IF Head(bs).product_id = p THEN Head(bs).delta_quantity ELSE 0)
            + BroadcastTotal(Tail(bs), p)

\* C12: an outbox entry that reaches the Hub in more than one OutboxBatch is
\* counted once: when the Hub has nothing left to process, what it has
\* broadcast or holds pending for a product is the sum over the distinct
\* entries it received.
DuplicateEntryCountedOnce ==
    (delta_rx = <<>> /\ cmd_rx = <<>>) =>
        \A p \in ProductIds :
            BroadcastTotal(broadcasts, p) + pending[p].delta_quantity
                = EntriesTotal({hhist.processed[i] : i \in DOMAIN hhist.processed}, p)

-----------------------------------------------------------------------------
\* The rows inside the LIMIT window of get_pending: unsynced, with fewer
\* than BatchSize unsynced rows created before them.
InWindow(i) ==
    /\ sync_outbox[i].synced_at = "NULL"
    /\ Cardinality({j \in 1..(i - 1) : sync_outbox[j].synced_at = "NULL"}) < BatchSize

\* Batch b holds, oldest first, the rows of the window that may still be sent.
IsOldestPending(b) ==
    /\ \A k \in 1..(Len(b) - 1) : b[k] < b[k + 1]
    /\ {b[k] : k \in DOMAIN b}
          = {i \in DOMAIN sync_outbox :
                InWindow(i) /\ sync_outbox[i].attempts < MAX_RETRY_ATTEMPTS}

-----------------------------------------------------------------------------
\* Row i has used up its attempts.
Exhausted(i) == sync_outbox[i].attempts >= MAX_RETRY_ATTEMPTS

\* The step sends a batch that contains row i.
Resent(i) ==
    /\ Len(sent') = Len(sent) + 1
    /\ \E k \in DOMAIN sent'[Len(sent')].entries : sent'[Len(sent')].entries[k] = i

-----------------------------------------------------------------------------
\* The sum of the deltas of product p in a sequence of deltas.
RECURSIVE WindowSum(_, _)
WindowSum(ds, p) ==
    IF ds = <<>> THEN 0
    ELSE (IF Head(ds).product_id = p THEN Head(ds).delta_quantity ELSE 0)
            + WindowSum(Tail(ds), p)

\* C15: in coalesced mode a flush emits, for every product whose deltas
\* since the previous flush sum to a nonzero value, exactly one
\* InventoryUpdate carrying that sum, none for a product whose deltas sum to
\* zero, and leaves the pending map empty.
FlushEmitsWindowSums ==
    [][(hhist.window # <<>> /\ hhist'.window = <<>>) =>
         LET new == SubSeq(broadcasts', Len(broadcasts) + 1, Len(broadcasts'))
         IN /\ \A p \in ProductIds :
                  LET sum == WindowSum(hhist.window, p)
                      of_p == {k \in DOMAIN new : new[k].product_id = p}
                  IN IF sum = 0 THEN of_p = {}
                     ELSE /\ Cardinality(of_p) = 1
                          /\ \A k \in of_p : new[k].delta_quantity = sum
            /\ \A p \in ProductIds : ~pending'[p].present]_vars

\* A window with p1 -2, p1 +2 and p2 +1 has been flushed: one update, for p2.
ZeroSumWindowFlushed ==
    /\ Len(hhist.received) = 3
    /\ {hhist.received[k].delta : k \in DOMAIN hhist.received}
          = {InventoryDelta("p1", -2), InventoryDelta("p1", 2), InventoryDelta("p2", 1)}
    /\ delta_rx = <<>> /\ cmd_rx = <<>> /\ hhist.window = <<>>
    /\ Len(broadcasts) = 1
    /\ broadcasts[1].product_id = "p2" /\ broadcasts[1].delta_quantity = 1
    /\ \A p \in ProductIds : ~pending[p].present

-----------------------------------------------------------------------------
\* C16: a connection whose Hello carries another store's id is answered with
\* Error STORE_MISMATCH and closed; it gets no entry in the clients map and
\* nothing it sends is forwarded to the delta processor.
StoreMismatchRejected ==
    \A c \in ConnIds :
        (conn[c].store_id \in StoreIds \ {HubStore}) =>
            /\ conn[c].state = "closed"
            /\ hub_out[c] = <<HubMessage("Error", "STORE_MISMATCH")>>
            /\ \A d \in HubClients : clients[d] # c
            /\ c \notin hhist.forwarded

\* A Hello of another store has been rejected while a device of the Hub's
\* own store is registered and has sent a message.
MismatchNextToServedClient ==
    \E c, c2 \in ConnIds :
        /\ conn[c].store_id \in StoreIds \ {HubStore}
        /\ conn[c].state = "closed"
        /\ conn[c2].state = "serving"
        /\ clients[conn[c2].device_id] = c2
        /\ c2 \in hhist.forwarded

\* C17: a second handshake for a device_id closes the earlier connection of
\* that device before the new one is registered, so at most one connection
\* per device_id is served.
OneServedConnectionPerDevice ==
    \A c, c2 \in ConnIds :
        (/\ conn[c].state = "serving" /\ conn[c2].state = "serving"
         /\ conn[c].device_id = conn[c2].device_id) => c = c2

-----------------------------------------------------------------------------
ForcedPrimaryStartsNextTerm ==
    [][(epc[4] = "init" /\ epc'[4] # "init") =>
         /\ role'[4] = "primary"
         /\ epc'[4] = "loop"
         /\ term'[4] = term[4] + 1]_vars

\* C20: a device configured in mode secondary or offline is never PRIMARY
\* and never CANDIDATE.
ForcedModesNeverLead ==
    \A d \in {5, 6} : role[d] \notin {"primary", "candidate"}

\* The offline device has been forced SECONDARY and has then recorded a
\* heartbeat; the secondary device has recorded one and its timeout passed.
ForcedModesUnderCommands ==
    /\ epc[5] = "loop" /\ epc[6] = "loop"
    /\ role[6] = "secondary" /\ primary_id[6] # NoDevice
    /\ primary_id[5] # NoDevice /\ last_heartbeat[5] = "expired"
    /\ term[5] >= 1

-----------------------------------------------------------------------------
\* C21: for each (store, stream) pair the stored sync cursor never decreases.
CursorNeverDecreases ==
    [][\A k \in CursorKeys :
         sync_cursors[k].present =>
            /\ sync_cursors'[k].present
            /\ sync_cursors'[k].position >= sync_cursors[k].position]_vars

-----------------------------------------------------------------------------
\* The hubs a finished scan returns.
ScanResult == {d \in AnnounceIds : scan.state = "returned" /\ scan.hubs[d].present}

\* C22 (as stated): every hub a scan returns belongs to the scanning
\* device's store and is not the scanning device itself.
ScanReturnsOwnStoreOnly ==
    \A d \in ScanResult : scan.hubs[d].store_id = ScannerStore /\ d # ScannerId

-----------------------------------------------------------------------------
\* The update at the head of the channel is a product update that the
\* version check skips.
HeadIsStale ==
    LET u == Head(update_rx).update
    IN /\ u.entity_type = "product"
       /\ products[u.entity_id].present
       /\ products[u.entity_id].sync_version >= u.version

\* The update at the head of the channel makes the database or the parser
\* fail: an upsert whose data is no Product, or whose INSERT hits a taken key.
HeadFails ==
    LET u == Head(update_rx).update
    IN /\ u.entity_type = "product" /\ u.operation = "upsert"
       /\ ~HeadIsStale
       /\ \/ u.data.parses # "Product"
          \/ ~products[u.entity_id].present /\ products[u.data.id].present

\* C23: every EntityUpdate the inbound handler consumes adds exactly one
\* UpdateAck for its entity_id; a stale update is acked with success and the
\* local version and changes nothing, a failed one with success = false and
\* an error; nothing else adds an ack.
EveryUpdateAckedOnce ==
    [][IF update_rx # <<>> /\ update_rx' = Tail(update_rx)
       THEN LET u == Head(update_rx).update
                ack == acks'[Len(acks')]
            IN /\ acks' = Append(acks, ack)
               /\ ack.entity_id = u.entity_id
               /\ ack.success <=> ack.error = "None"
               /\ HeadIsStale =>
                     /\ ack.success
                     /\ ack.applied_version = products[u.entity_id].sync_version
                     /\ products' = products
               /\ HeadFails =>
                     /\ ~ack.success /\ ack.applied_version = 0 /\ ack.error = "Some"
       ELSE acks' = acks]_vars

\* A failed upsert and then a stale product update have both been acked.
FailedAndStaleAcked ==
    /\ Len(acks) = 2
    /\ ~acks[1].success
    /\ acks[2].success
    /\ hist.last.entity_type = "product"
    /\ hist.pre[hist.last.entity_id].present
    /\ hist.pre[hist.last.entity_id].sync_version >= hist.last.version
    /\ acks[2].applied_version = hist.pre[hist.last.entity_id].sync_version

-----------------------------------------------------------------------------
\* C24: the broadcast messages a connection receives arrive in the order in
\* which they were broadcast.
BroadcastOrderKept ==
    \A c \in FanConns :
        \A i, j \in DOMAIN fan.wire[c] :
            (i < j /\ fan.wire[c][i] # PingFrame /\ fan.wire[c][j] # PingFrame)
                => fan.wire[c][i] < fan.wire[c][j]

\* A connection got message 1, a Ping, and then message 3 after lagging
\* behind message 2.
OrderedAcrossLagAndPing ==
    \E c \in FanConns : fan.wire[c] = <<1, PingFrame, 3>>

-----------------------------------------------------------------------------
\* C25: once the transport is connected to the Hub, the handshake completes:
\* the agent eventually emits the handshaked status event.
ConnectedLeadsToHandshake ==
    (link.state = "connected" /\ link.peer = "hub") ~> link.emitted

-----------------------------------------------------------------------------
\* The sum of the inventory deltas recorded for product p.
RECURSIVE AppliedDeltas(_, _)
AppliedDeltas(ds, p) ==
    IF ds = <<>> THEN 0
    ELSE (IF Head(ds).product_id = p THEN Head(ds).delta ELSE 0)
            + AppliedDeltas(Tail(ds), p)

\* C26: the messages the router was given take effect: once the inbound
\* channel is drained, every product's stock has moved by the routed
\* InventoryUpdate quantities (and the applied deltas), and a routed
\* Heartbeat of a term not below the device's own has made its sender the
\* device's primary under that term.
RoutedMessagesTakeEffect ==
    /\ update_rx = <<>> =>
          \A p \in ProductIds :
              products[p].present =>
                  products[p].current_stock =
                      InitialProducts[p].current_stock + router.inventory[p]
                          + AppliedDeltas(inventory_deltas, p)
    /\ (router.heartbeat # NoHeartbeat
            /\ router.heartbeat.election_term >= term[RouterDevice]) =>
          /\ primary_id[RouterDevice] = router.heartbeat.device_id
          /\ term[RouterDevice] = router.heartbeat.election_term

-----------------------------------------------------------------------------
\* C27: get_token returns the cached token while it is more than 5 minutes
\* from expiry; inside the margin it refreshes; a failed refresh of a token
\* that is still valid returns that token; the API key is exchanged only for
\* an expired or absent token.
TokenRefreshPolicy ==
    LET c == auth.last
        valid == c.token.present /\ ~is_expired(c.token, c.now)
        inside == valid /\ c.now + REFRESH_MARGIN_MIN >= c.token.expires_at
    IN c.called =>
         /\ (valid /\ ~inside) =>
               c.result = c.token.access_token /\ ~c.refreshed /\ ~c.exchanged
         /\ (inside /\ c.refresh_ok) => c.refreshed /\ c.result # c.token.access_token
         /\ (inside /\ ~c.refresh_ok) => c.result = c.token.access_token
         /\ c.exchanged => ~valid

-----------------------------------------------------------------------------
\* min(initial_backoff * 2^k, max_backoff).
RECURSIVE BaseDelay(_)
BaseDelay(k) ==
    IF k = 0 THEN initial_backoff
    ELSE IF BaseDelay(k - 1) * 2 >= max_backoff THEN max_backoff ELSE BaseDelay(k - 1) * 2

-----------------------------------------------------------------------------
\* Device d is in the election window of its candidacy at term t.
InElectionWindow(d, t) == epc[d] = "election_sleep" /\ role[d] = "candidate" /\ term[d] = t

\* A device, another device's heartbeat and terms t <= ht.
WindowCases ==
    {c \in Devices \X Devices \X (1..MaxTerm) \X (1..MaxTerm) : c[1] # c[2] /\ c[4] >= c[3]}

\* C29: a candidate at term t to which a Heartbeat with term >= t is sent
\* while it is in its election window never becomes PRIMARY at term t.
CandidateYieldsToHeartbeat ==
    \A c \in WindowCases :
        LET hb == [device_id |-> c[2], election_term |-> c[4]]
        IN [](InElectionWindow(c[1], c[3]) /\ hb \notin heartbeats
                => []((InElectionWindow(c[1], c[3]) /\ hb \in heartbeats)
                        => [](~(role[c[1]] = "primary" /\ term[c[1]] = c[3]))))

-----------------------------------------------------------------------------
\* C30: a PRIMARY at term t that handles a Heartbeat with a term above t is
\* SECONDARY after that step, with the heartbeat's term and its sender as
\* primary; a Heartbeat with a term below t leaves its role, term and primary
\* as they were.
PrimaryStepsDownOnHigherTerm ==
    [][(heard' # heard /\ heard'.role = "primary") =>
         LET h == heard'
             d == h.device
         IN /\ h.election_term > h.term =>
                  /\ role'[d] = "secondary"
                  /\ term'[d] = h.election_term
                  /\ primary_id'[d] = h.device_id
            /\ h.election_term < h.term =>
                  /\ role'[d] = "primary"
                  /\ term'[d] = h.term
                  /\ primary_id'[d] = h.primary_id]_vars

\* A PRIMARY has handled a heartbeat of a higher term and is SECONDARY under
\* that term and its sender.
SteppedDownOnHigherTerm ==
    /\ heard.role = "primary"
    /\ heard.election_term > heard.term
    /\ role[heard.device] = "secondary"
    /\ term[heard.device] = heard.election_term
    /\ primary_id[heard.device] = heard.device_id

-----------------------------------------------------------------------------
\* C31: an AUTO device that challenges a discovered Hub is CANDIDATE at a
\* term above its own previous term and above the election term the Hub
\* announced.
ChallengeRunsAboveBothTerms ==
    [][(scanned' # scanned /\ scanned'.challenged) =>
         LET d == scanned'.device
         IN /\ role'[d] = "candidate"
            /\ term'[d] > scanned'.own_term
            /\ term'[d] > scanned'.hub_term]_vars

-----------------------------------------------------------------------------
\* Device a outranks device b when the larger device ID wins a priority tie.
OutranksByLargerId(a, b) ==
    \/ Priority(a) > Priority(b)
    \/ Priority(a) = Priority(b) /\ a > b

\* Device a outranks device b when the smaller device ID wins a priority tie.
OutranksBySmallerId(a, b) ==
    \/ Priority(a) > Priority(b)
    \/ Priority(a) = Priority(b) /\ a < b

\* C32 as stated: the best hub of a scan outranks every other announcer, and
\* the device challenges it exactly when it outranks it, under the ordering
\* "higher priority, then larger device ID".
BestHubByLargerId ==
    scanned.answered # {} =>
        /\ scanned.hub_id \in scanned.answered
        /\ \A o \in scanned.answered \ {scanned.hub_id} :
              OutranksByLargerId(scanned.hub_id, o)
        /\ scanned.challenged <=> OutranksByLargerId(scanned.device, scanned.hub_id)

\* C32 (amended): the same under the ordering "higher priority, then smaller
\* device ID", which ranks any two distinct devices one way only.
BestHubBySmallerId ==
    /\ \A a, b \in AllDevices :
          a # b => (OutranksBySmallerId(a, b) <=> ~OutranksBySmallerId(b, a))
    /\ scanned.answered # {} =>
          /\ scanned.hub_id \in scanned.answered
          /\ \A o \in scanned.answered \ {scanned.hub_id} :
                OutranksBySmallerId(scanned.hub_id, o)
          /\ scanned.challenged <=> OutranksBySmallerId(scanned.device, scanned.hub_id)

\* Device 3 scanned the announces of devices 1 and 2, which tie on priority,
\* took device 1 as the best hub and challenged it.
TieBrokenInScan ==
    /\ scanned.device = 3
    /\ scanned.answered = {1, 2}
    /\ scanned.hub_id = 1
    /\ scanned.challenged

-----------------------------------------------------------------------------
\* The broadcast messages among the frames of a sequence, in order.
RECURSIVE BroadcastsOf(_)
BroadcastsOf(frames) ==
    IF frames = <<>> THEN <<>>
    ELSE IF Head(frames) = PingFrame THEN BroadcastsOf(Tail(frames))
    ELSE <<Head(frames)>> \o BroadcastsOf(Tail(frames))

\* C33: a connection that is still served has been sent every broadcast
\* enqueued since the first one it got: the broadcast messages written to
\* its socket are consecutive.
ServedClientMissesNothing ==
    \A c \in FanConns :
        LET got == BroadcastsOf(fan.wire[c])
        IN fan.next[c] # NotSubscribed =>
              \A i \in 1..(Len(got) - 1) : got[i + 1] = got[i] + 1

-----------------------------------------------------------------------------
\* C34: once shutdown() has been called, in whatever state, the transport
\* reaches Disconnected and stays there (no further connection attempt).
ShutdownStopsTransport ==
    transport.requested ~> [](transport.state = "disconnected")

-----------------------------------------------------------------------------
\* C35: every get_token call returns (a token or an error): a call that
\* has started is eventually back to idle, never waiting on the token lock
\* for ever.
GetTokenTerminates ==
    \A c \in Callers : (token_lock.pc[c] # "idle") ~> (token_lock.pc[c] = "idle")

-----------------------------------------------------------------------------
\* C36: the clients map has an entry for device_id D exactly when some
\* connection that completed the handshake as D is still open; the cleanup
\* of an older connection of D leaves the entry of a newer one alone.
ClientsMapMatchesConnections ==
    \A d \in HubClients :
        clients[d] # NoConn <=>
            \E c \in ConnIds : conn[c].state = "serving" /\ conn[c].device_id = d

-----------------------------------------------------------------------------
\* C37: on a connected transport every pending entry below the retry limit
\* is eventually handed over in an OutboxBatch (from then on, as long as
\* poll ticks remain), however many older entries are exhausted.
PendingEntryEventuallySent ==
    \A i \in 1..MaxEntries :
        (/\ connected /\ i \in DOMAIN sync_outbox
         /\ sync_outbox[i].synced_at = "NULL"
         /\ sync_outbox[i].attempts < MAX_RETRY_ATTEMPTS)
          ~> (i \in SentIds \/ batch_seq = MaxPolls)

-----------------------------------------------------------------------------
\* The sum of delta_quantity over the InventoryUpdates of a product.
RECURSIVE EmittedSum(_, _)
EmittedSum(updates, p) ==
    IF updates = <<>> THEN 0
    ELSE (IF Head(updates).product_id = p THEN Head(updates).delta_quantity ELSE 0)
            + EmittedSum(Tail(updates), p)

\* C38: for every product, what was emitted plus what is pending is the sum
\* of the deltas received; after Shutdown nothing is left pending.
DeltasConserved ==
    /\ \A p \in ProductIds :
          EmittedSum(broadcasts, p) + pending[p].delta_quantity = agg.received[p]
    /\ agg.stopped => \A p \in ProductIds : ~pending[p].present

\* A window tick emitted the first sale of p1, two more deltas were merged,
\* and Shutdown emitted them.
ShutdownEmitsThePending ==
    /\ agg.stopped
    /\ agg.received["p1"] = -1
    /\ broadcasts = <<InventoryUpdate("p1", -2, "d1"), InventoryUpdate("p1", 1, "d1")>>

-----------------------------------------------------------------------------
\* C39: no step lowers the sync_version of a products row, with applier
\* writes and local writes interleaved.
SyncVersionNeverDecreases ==
    [][\A p \in ProductIds :
          (products[p].present /\ products'[p].present) =>
              products'[p].sync_version >= products[p].sync_version]_vars

-----------------------------------------------------------------------------
\* The protocol messages among the frames written to the socket.
SentMessages == SelectSeq(link.up, LAMBDA f : f # "PingFrame")

\* C40: on a connection whose Hello the Hub has not answered yet (no Welcome
\* sent, so none received), the client's first message is the Hello and no
\* OutboxBatch or UpdateAck is on the wire.
HelloBeforeAnyBatch ==
    (link.state = "connected" /\ link.hub \in {"greeting", "await_hello"}) =>
        /\ SentMessages # <<>> => SentMessages[1] = "Hello"
        /\ \A i \in DOMAIN SentMessages : SentMessages[i] \notin {"OutboxBatch", "UpdateAck"}

====
